---------------------------- MODULE Spec2Model ----------------------------
(***************************************************************************)
(* A model of the storage and concurrency core of the cmu15-445 project:   *)
(* the lock manager (wait-die row locking), the extendible hash table, the *)
(* LRU replacer and the B+ tree index.  Each component has its own         *)
(* next-state relation and specification over the shared variable list.    *)
(***************************************************************************)
EXTENDS Integers, Sequences, FiniteSets, TLC

(***************************************************************************)
(* Bounds of the model.                                                    *)
(***************************************************************************)
NumTxns == 3
NumRids == 2
MaxCalls == 6

Txns == 0 .. (NumTxns - 1)
Rids == 1 .. NumRids

VARIABLES
  strict_2PL_,          \* LockManager::strict_2PL_
  lock_table_,          \* LockManager::lock_table_ : rid -> Waiting
  txn_state,            \* Transaction::state_ of every transaction
  shared_lock_set,      \* Transaction::shared_lock_set_
  exclusive_lock_set,   \* Transaction::exclusive_lock_set_
  pc,                   \* where the thread of every transaction stands
  woken,                \* threads notified on LockManager::cond and not yet run
  lm_halt,              \* an assert of the lock manager has failed
  lm_last,              \* the last lock-manager step (history)
  lm_calls              \* lock-manager calls made so far

lmVars == <<strict_2PL_, lock_table_, txn_state, shared_lock_set,
            exclusive_lock_set, pc, woken, lm_halt, lm_last, lm_calls>>

(***************************************************************************)
(* LOCK MANAGER                                                            *)
(***************************************************************************)

\* exclusive_cnt is an unsigned counter.  The model keeps the signed reading of
\* its bits: -1 stands for the all-ones value that 0 wraps to when decremented.
\* ++, -- and the test against 0 act alike on both readings.
CntInc(c) == c + 1
CntDec(c) == c - 1

Request(t, m, g) == [txn_id |-> t, mode |-> m, granted |-> g]

\* A rid that is not a key of lock_table_.
NoWaiting == [present |-> FALSE, list |-> <<>>, oldest |-> 0, exclusive_cnt |-> 0]

Idle == [kind |-> "idle", rid |-> 0]

NoStep == [op |-> "none", txn |-> 0, rid |-> 0, ret |-> "none",
           pre |-> NoWaiting, prestate |-> "GROWING"]

Step(o, t, r, res) ==
  [op |-> o, txn |-> t, rid |-> r, ret |-> res,
   pre |-> lock_table_[r], prestate |-> txn_state[t]]

\* The index of the first request of t in list, 0 when there is none.
FirstIdx(list, t) ==
  IF \E i \in 1..Len(list) : list[i].txn_id = t
  THEN CHOOSE i \in 1..Len(list) :
         /\ list[i].txn_id = t
         /\ \A j \in 1..(i - 1) : list[j].txn_id # t
  ELSE 0

HasRequest(t, r) == FirstIdx(lock_table_[r].list, t) # 0

RemoveAt(list, i) == SubSeq(list, 1, i - 1) \o SubSeq(list, i + 1, Len(list))

\* cond.notify_all(): every thread waiting on cond is made runnable.
NotifyAll(w, p) == w \cup {u \in Txns : p[u].kind # "idle"}

\* A variant of the wait predicate that does not look at the modes.
SharedPredGranted(list, t) ==
  LET i == FirstIdx(list, t) IN
    /\ i # 0
    /\ \A j \in 1..(i - 1) : list[j].granted

\* The wait predicate of LockShared: all requests before ours are shared and granted.
SharedPred(list, t) ==
  LET i == FirstIdx(list, t) IN
    /\ i # 0
    /\ \A j \in 1..(i - 1) : list[j].mode = "SHARED" /\ list[j].granted

\* The wait predicate of LockExclusive and LockUpgrade: ours is the first request.
FrontPred(list, t) == Len(list) > 0 /\ list[1].txn_id = t

\* Wait-die test of LockShared on an existing queue.
SharedDies(t, w) == w.exclusive_cnt # 0 /\ t > w.oldest

\* Wait-die test of LockExclusive on an existing queue.
ExclusiveDiesNeedsX(t, w) == w.exclusive_cnt # 0 /\ t > w.oldest
ExclusiveDies(t, w) == t > w.oldest

\* The queue of rid after LockShared has admitted the request.
SharedAdmit(t, w) ==
  IF ~w.present
  THEN [present |-> TRUE, list |-> <<Request(t, "SHARED", FALSE)>>,
        oldest |-> t, exclusive_cnt |-> 0]
  ELSE [w EXCEPT !.oldest = IF w.oldest > t THEN t ELSE w.oldest,
                 !.list = Append(w.list, Request(t, "SHARED", FALSE))]

\* The queue of rid after LockExclusive has admitted the request.
ExclusiveAdmit(t, w) ==
  IF ~w.present
  THEN [present |-> TRUE, list |-> <<Request(t, "EXCLUSIVE", FALSE)>>,
        oldest |-> t, exclusive_cnt |-> 1]
  ELSE [w EXCEPT !.oldest = t,
                 !.list = Append(w.list, Request(t, "EXCLUSIVE", FALSE)),
                 !.exclusive_cnt = CntInc(w.exclusive_cnt)]

\* cur->granted = true on the first request of t.
GrantShared(w, t) ==
  [w EXCEPT !.list[FirstIdx(w.list, t)].granted = TRUE]

\* list.front().granted = true
GrantFront(w) == [w EXCEPT !.list[1].granted = TRUE]

\* A variant of the upgrade that changes the mode of the last request.
UpgradeLast(w) == [w EXCEPT !.list[Len(w.list)].mode = "EXCLUSIVE"]

\* list.front().mode = EXCLUSIVE
UpgradeFront(w) == [w EXCEPT !.list[1].mode = "EXCLUSIVE"]

\* The lock manager after LockManager(strict), with fresh transactions.
LMConstructed(strict) ==
  /\ strict_2PL_ = strict
  /\ lock_table_ = [r \in Rids |-> NoWaiting]
  /\ txn_state = [t \in Txns |-> "GROWING"]
  /\ shared_lock_set = [t \in Txns |-> {}]
  /\ exclusive_lock_set = [t \in Txns |-> {}]
  /\ pc = [t \in Txns |-> Idle]
  /\ woken = {}
  /\ lm_halt = FALSE
  /\ lm_last = NoStep
  /\ lm_calls = 0

LMInit == \E strict \in BOOLEAN : LMConstructed(strict)

\* A variant of the assert of the lock calls that lets a SHRINKING caller pass.
NotGrowingNorShrinking(s) == s \notin {"GROWING", "SHRINKING"}

\* The assert of the lock calls fails: the caller is not GROWING.
NotGrowing(s) == s # "GROWING"

\* A lock call by a transaction that is neither ABORTED nor GROWING fails the assert.
LMAssertFails(o, t, r) ==
  /\ lm_halt' = TRUE
  /\ lm_last' = Step(o, t, r, "assert")
  /\ UNCHANGED <<strict_2PL_, lock_table_, txn_state, shared_lock_set,
                 exclusive_lock_set, pc, woken>>

\* A lock call by an ABORTED transaction returns false at once.
LMReturnsFalse(o, t, r) ==
  /\ lm_last' = Step(o, t, r, "false")
  /\ UNCHANGED <<strict_2PL_, lock_table_, txn_state, shared_lock_set,
                 exclusive_lock_set, pc, woken, lm_halt>>

\* Wait-die: the caller is aborted and the call returns false.
LMDies(o, t, r) ==
  /\ txn_state' = [txn_state EXCEPT ![t] = "ABORTED"]
  /\ lm_last' = Step(o, t, r, "false")
  /\ UNCHANGED <<strict_2PL_, lock_table_, shared_lock_set,
                 exclusive_lock_set, pc, woken, lm_halt>>

\* LockShared from the wait on cond to its return, on the queue w of rid r.
SharedProceed(o, t, r, w) ==
  IF SharedPred(w.list, t)
  THEN /\ lock_table_' = [lock_table_ EXCEPT ![r] = GrantShared(w, t)]
       /\ shared_lock_set' = [shared_lock_set EXCEPT ![t] = @ \cup {r}]
       /\ pc' = [pc EXCEPT ![t] = Idle]
       /\ woken' = NotifyAll(woken \ {t}, [pc EXCEPT ![t] = Idle])
       /\ lm_last' = Step(o, t, r, "true")
       /\ UNCHANGED <<strict_2PL_, txn_state, exclusive_lock_set, lm_halt>>
  ELSE /\ lock_table_' = [lock_table_ EXCEPT ![r] = w]
       /\ pc' = [pc EXCEPT ![t] = [kind |-> "waitS", rid |-> r]]
       /\ woken' = woken \ {t}
       /\ lm_last' = Step(o, t, r, "blocked")
       /\ UNCHANGED <<strict_2PL_, txn_state, shared_lock_set,
                      exclusive_lock_set, lm_halt>>

\* LockExclusive from the wait on cond to its return.
ExclusiveProceed(o, t, r, w) ==
  IF FrontPred(w.list, t)
  THEN /\ lock_table_' = [lock_table_ EXCEPT ![r] = GrantFront(w)]
       /\ exclusive_lock_set' = [exclusive_lock_set EXCEPT ![t] = @ \cup {r}]
       /\ pc' = [pc EXCEPT ![t] = Idle]
       /\ woken' = woken \ {t}
       /\ lm_last' = Step(o, t, r, "true")
       /\ UNCHANGED <<strict_2PL_, txn_state, shared_lock_set, lm_halt>>
  ELSE /\ lock_table_' = [lock_table_ EXCEPT ![r] = w]
       /\ pc' = [pc EXCEPT ![t] = [kind |-> "waitX", rid |-> r]]
       /\ woken' = woken \ {t}
       /\ lm_last' = Step(o, t, r, "blocked")
       /\ UNCHANGED <<strict_2PL_, txn_state, shared_lock_set,
                      exclusive_lock_set, lm_halt>>

\* LockUpgrade from the wait on cond to its return.
UpgradeProceed(o, t, r, w) ==
  IF FrontPred(w.list, t)
  THEN IF w.list[1].mode = "SHARED" /\ w.list[1].granted
       THEN /\ lock_table_' = [lock_table_ EXCEPT ![r] = UpgradeFront(w)]
            /\ shared_lock_set' = [shared_lock_set EXCEPT ![t] = @ \ {r}]
            /\ exclusive_lock_set' = [exclusive_lock_set EXCEPT ![t] = @ \cup {r}]
            /\ pc' = [pc EXCEPT ![t] = Idle]
            /\ woken' = woken \ {t}
            /\ lm_last' = Step(o, t, r, "true")
            /\ UNCHANGED <<strict_2PL_, txn_state, lm_halt>>
       ELSE /\ lm_halt' = TRUE
            /\ lm_last' = Step(o, t, r, "assert")
            /\ UNCHANGED <<strict_2PL_, lock_table_, txn_state, shared_lock_set,
                           exclusive_lock_set, pc, woken>>
  ELSE /\ pc' = [pc EXCEPT ![t] = [kind |-> "waitU", rid |-> r]]
       /\ woken' = woken \ {t}
       /\ lm_last' = Step(o, t, r, "blocked")
       /\ UNCHANGED <<strict_2PL_, lock_table_, txn_state, shared_lock_set,
                      exclusive_lock_set, lm_halt>>

\* LockManager::LockShared, from its entry to its return or to the wait on cond.
LockShared(t, r) ==
  /\ ~lm_halt
  /\ lm_calls < MaxCalls
  /\ lm_calls' = lm_calls + 1
  /\ pc[t].kind = "idle"
  /\ ~HasRequest(t, r)
  /\ IF txn_state[t] = "ABORTED" THEN LMReturnsFalse("LockShared", t, r)
     ELSE IF NotGrowing(txn_state[t]) THEN LMAssertFails("LockShared", t, r)
     ELSE IF lock_table_[r].present /\ SharedDies(t, lock_table_[r])
          THEN LMDies("LockShared", t, r)
          ELSE SharedProceed("LockShared", t, r, SharedAdmit(t, lock_table_[r]))

\* LockManager::LockExclusive, from its entry to its return or to the wait on cond.
LockExclusive(t, r) ==
  /\ ~lm_halt
  /\ lm_calls < MaxCalls
  /\ lm_calls' = lm_calls + 1
  /\ pc[t].kind = "idle"
  /\ ~HasRequest(t, r)
  /\ IF txn_state[t] = "ABORTED" THEN LMReturnsFalse("LockExclusive", t, r)
     ELSE IF NotGrowing(txn_state[t]) THEN LMAssertFails("LockExclusive", t, r)
     ELSE IF lock_table_[r].present /\ ExclusiveDies(t, lock_table_[r])
          THEN LMDies("LockExclusive", t, r)
          ELSE ExclusiveProceed("LockExclusive", t, r,
                                ExclusiveAdmit(t, lock_table_[r]))

\* LockManager::LockUpgrade, called by a transaction that holds a shared lock on r.
LockUpgrade(t, r) ==
  /\ ~lm_halt
  /\ lm_calls < MaxCalls
  /\ lm_calls' = lm_calls + 1
  /\ pc[t].kind = "idle"
  /\ HasRequest(t, r)
  /\ lock_table_[r].list[FirstIdx(lock_table_[r].list, t)].mode = "SHARED"
  /\ IF txn_state[t] = "ABORTED" THEN LMReturnsFalse("LockUpgrade", t, r)
     ELSE IF NotGrowing(txn_state[t]) THEN LMAssertFails("LockUpgrade", t, r)
     ELSE UpgradeProceed("LockUpgrade", t, r, lock_table_[r])

\* A thread blocked in cond.wait runs again after a notify_all (or spuriously).
Wake(t) ==
  /\ ~lm_halt
  /\ UNCHANGED lm_calls
  /\ pc[t].kind # "idle"
  /\ t \in woken
  /\ LET r == pc[t].rid IN
       IF pc[t].kind = "waitS" THEN SharedProceed("WakeShared", t, r, lock_table_[r])
       ELSE IF pc[t].kind = "waitX"
            THEN ExclusiveProceed("WakeExclusive", t, r, lock_table_[r])
            ELSE UpgradeProceed("WakeUpgrade", t, r, lock_table_[r])

\* A spurious wakeup of cond.wait.
SpuriousWake(t) ==
  /\ ~lm_halt
  /\ UNCHANGED lm_calls
  /\ pc[t].kind # "idle"
  /\ t \notin woken
  /\ woken' = woken \cup {t}
  /\ lm_last' = Step("Spurious", t, pc[t].rid, "none")
  /\ UNCHANGED <<strict_2PL_, lock_table_, txn_state, shared_lock_set,
                 exclusive_lock_set, pc, lm_halt>>

\* The queue of rid after Unlock has erased the first request of t.
UnlockErase(w, t) ==
  LET i == FirstIdx(w.list, t) IN
    IF i = 0 THEN w
    ELSE [w EXCEPT !.list = RemoveAt(w.list, i),
                   !.exclusive_cnt = IF w.list[i].mode = "EXCLUSIVE"
                                     THEN CntDec(w.exclusive_cnt)
                                     ELSE w.exclusive_cnt]

\* Whether Unlock calls notify_all: the erased request was first or exclusive.
UnlockNotifies(w, t) ==
  LET i == FirstIdx(w.list, t) IN
    i # 0 /\ (i = 1 \/ w.list[i].mode = "EXCLUSIVE")

\* The strict-2PL test of Unlock as written: state != COMMITTED || state != ABORTED.
StrictRejects(s) == s # "COMMITTED" \/ s # "ABORTED"

\* A variant of the state change of Unlock that moves every state to SHRINKING.
UnlockStateAlways(strict, s) == IF ~strict THEN "SHRINKING" ELSE s

\* The state of the caller after the non-rejecting path of Unlock: only a
\* GROWING transaction under non-strict 2PL turns SHRINKING.
UnlockState(strict, s) == IF ~strict /\ s = "GROWING" THEN "SHRINKING" ELSE s

\* LockManager::Unlock, whether or not t has a request on r.  The state of the
\* caller is set before assert(lock_table_.count(rid)); when r is a key of
\* lock_table_ and no request of t is found, the loop ends and true is returned.
Unlock(t, r) ==
  /\ ~lm_halt
  /\ lm_calls < MaxCalls
  /\ lm_calls' = lm_calls + 1
  /\ pc[t].kind = "idle"
  /\ IF strict_2PL_ /\ StrictRejects(txn_state[t])
     THEN /\ txn_state' = [txn_state EXCEPT ![t] = "ABORTED"]
          /\ lm_last' = Step("Unlock", t, r, "false")
          /\ UNCHANGED <<strict_2PL_, lock_table_, shared_lock_set,
                         exclusive_lock_set, pc, woken, lm_halt>>
     ELSE IF ~lock_table_[r].present
     THEN /\ txn_state' = [txn_state EXCEPT ![t] = UnlockState(strict_2PL_, @)]
          /\ lm_halt' = TRUE
          /\ lm_last' = Step("Unlock", t, r, "assert")
          /\ UNCHANGED <<strict_2PL_, lock_table_, shared_lock_set,
                         exclusive_lock_set, pc, woken>>
     ELSE /\ txn_state' = [txn_state EXCEPT ![t] = UnlockState(strict_2PL_, @)]
          /\ lock_table_' = [lock_table_ EXCEPT ![r] = UnlockErase(@, t)]
          /\ woken' = IF UnlockNotifies(lock_table_[r], t)
                      THEN NotifyAll(woken, pc) ELSE woken
          /\ lm_last' = Step("Unlock", t, r, "true")
          /\ UNCHANGED <<strict_2PL_, shared_lock_set, exclusive_lock_set,
                         pc, lm_halt>>

\* The transaction manager ends a transaction: COMMITTED or ABORTED.
TxnEnd(t, s) ==
  /\ ~lm_halt
  /\ lm_calls < MaxCalls
  /\ lm_calls' = lm_calls + 1
  /\ pc[t].kind = "idle"
  /\ txn_state[t] \in {"GROWING", "SHRINKING"}
  /\ txn_state' = [txn_state EXCEPT ![t] = s]
  /\ lm_last' = Step("TxnEnd", t, 1, "none")
  /\ UNCHANGED <<strict_2PL_, lock_table_, shared_lock_set,
                 exclusive_lock_set, pc, woken, lm_halt>>

LMNext ==
  \/ \E t \in Txns, r \in Rids : LockShared(t, r)
  \/ \E t \in Txns, r \in Rids : LockExclusive(t, r)
  \/ \E t \in Txns, r \in Rids : LockUpgrade(t, r)
  \/ \E t \in Txns, r \in Rids : Unlock(t, r)
  \/ \E t \in Txns : Wake(t)
  \/ \E t \in Txns : SpuriousWake(t)
  \/ \E t \in Txns, s \in {"COMMITTED", "ABORTED"} : TxnEnd(t, s)

(***************************************************************************)
(* Lock manager: properties                                                *)
(***************************************************************************)

ListOf(r) == lock_table_[r].list

\* The ids of the transactions with a request in list.
IdsIn(list) == {list[i].txn_id : i \in 1..Len(list)}

HasExclusive(list) == \E i \in 1..Len(list) : list[i].mode = "EXCLUSIVE"

SetMin(S) == CHOOSE x \in S : \A y \in S : x <= y

\* C1: on every rid, a request granted in EXCLUSIVE mode is the only granted
\* request of the queue (at most one X, never an X beside a granted S).
C1_MutualExclusion ==
  \A r \in Rids : \A i, j \in 1..Len(ListOf(r)) :
    (i # j /\ ListOf(r)[i].granted /\ ListOf(r)[i].mode = "EXCLUSIVE")
      => ~ListOf(r)[j].granted

\* t waits in a lock call for a request of u that stands before its own.
BlockedBy(t, u) ==
  /\ pc[t].kind # "idle"
  /\ LET list == ListOf(pc[t].rid)
         i == FirstIdx(list, t)
     IN \E j \in 1..(i - 1) :
          /\ list[j].txn_id = u
          /\ \/ pc[t].kind # "waitS"
             \/ list[j].mode = "EXCLUSIVE"
             \/ ~list[j].granted

\* A set of transactions each blocked in a lock call by another of the set.
Deadlock ==
  \E S \in SUBSET Txns :
    /\ S # {}
    /\ \A t \in S : \E u \in S : BlockedBy(t, u)

\* C2: under non-strict 2PL no reachable state is a deadlock: there is never a
\* set of transactions that all wait in lock calls for each other.
C2_NoDeadlock == ~strict_2PL_ => ~Deadlock

\* C8: LockExclusive by a GROWING (or ABORTED) transaction on a rid whose queue
\* holds a request of a transaction with a smaller id does not block: it returns
\* false, the caller is ABORTED, and the queue, oldest and exclusive_cnt of the
\* rid are as before the call.
C8_ExclusiveWaitDie ==
  ( /\ lm_last.op = "LockExclusive"
    /\ lm_last.prestate \in {"GROWING", "ABORTED"}
    /\ \E u \in IdsIn(lm_last.pre.list) : u < lm_last.txn )
  => ( /\ lm_last.ret = "false"
       /\ txn_state[lm_last.txn] = "ABORTED"
       /\ lock_table_[lm_last.rid] = lm_last.pre )

\* C8 witness: a GROWING transaction has just died in LockExclusive on a queue
\* that holds an older transaction's request.
C8_Witness ==
  /\ lm_last.op = "LockExclusive"
  /\ lm_last.prestate = "GROWING"
  /\ \E u \in IdsIn(lm_last.pre.list) : u < lm_last.txn
  /\ lm_last.ret = "false"
  /\ txn_state[lm_last.txn] = "ABORTED"

\* C9: LockShared by a GROWING transaction is aborted (false, ABORTED, queue
\* unchanged) exactly when the queue holds an EXCLUSIVE request and the caller's
\* id is greater than the smallest id among the queued requests; in every other
\* case its request is appended and oldest becomes min(oldest, id).
C9_SharedWaitDie ==
  ( lm_last.op = "LockShared" /\ lm_last.prestate = "GROWING" )
  => LET pre == lm_last.pre
         t == lm_last.txn
         now == lock_table_[lm_last.rid]
     IN IF HasExclusive(pre.list) /\ t > SetMin(IdsIn(pre.list))
        THEN /\ lm_last.ret = "false"
             /\ txn_state[t] = "ABORTED"
             /\ now = pre
        ELSE /\ lm_last.ret \in {"true", "blocked"}
             /\ Len(now.list) = Len(pre.list) + 1
             /\ now.list[Len(now.list)].txn_id = t
             /\ now.list[Len(now.list)].mode = "SHARED"
             /\ now.oldest = IF pre.present /\ pre.oldest < t THEN pre.oldest ELSE t

\* C10: LockShared by a GROWING transaction on a rid whose queue holds no
\* EXCLUSIVE request never returns false, and leaves the caller GROWING.
C10_SharedCompatible ==
  ( /\ lm_last.op = "LockShared"
    /\ lm_last.prestate = "GROWING"
    /\ ~HasExclusive(lm_last.pre.list) )
  => ( lm_last.ret # "false" /\ txn_state[lm_last.txn] = "GROWING" )

\* Some transaction younger than t holds a granted EXCLUSIVE request in list.
YoungerHoldsX(list, t) ==
  \E i \in 1..Len(list) :
    list[i].txn_id > t /\ list[i].mode = "EXCLUSIVE" /\ list[i].granted

\* C11: LockShared by a GROWING transaction that is older than every
\* transaction in the queue of the rid, one of which holds a granted EXCLUSIVE
\* lock, blocks: it does not return false and the caller stays GROWING (and is
\* served once the holder unlocks).
C11_OlderWaits ==
  ( /\ lm_last.op = "LockShared"
    /\ lm_last.prestate = "GROWING"
    /\ YoungerHoldsX(lm_last.pre.list, lm_last.txn)
    /\ \A u \in IdsIn(lm_last.pre.list) : u > lm_last.txn )
  => ( lm_last.ret = "blocked" /\ txn_state[lm_last.txn] = "GROWING" )

\* C12: under strict 2PL, Unlock by a COMMITTED or ABORTED transaction removes
\* its request from the queue, returns true and leaves its state unchanged;
\* Unlock by a GROWING or SHRINKING transaction returns false and aborts it.
C12_StrictUnlock ==
  (strict_2PL_ /\ lm_last.op = "Unlock")
  => IF lm_last.prestate \in {"COMMITTED", "ABORTED"}
     THEN /\ lm_last.ret = "true"
          /\ txn_state[lm_last.txn] = lm_last.prestate
          /\ Len(lock_table_[lm_last.rid].list) = Len(lm_last.pre.list) - 1
     ELSE /\ lm_last.ret = "false"
          /\ txn_state[lm_last.txn] = "ABORTED"

\* A SHRINKING transaction has just unlocked a second rid under non-strict 2PL
\* while another transaction has been aborted.
C13_Witness ==
  /\ ~strict_2PL_
  /\ lm_last.op = "Unlock"
  /\ lm_last.prestate = "SHRINKING"
  /\ lm_last.ret = "true"
  /\ txn_state[lm_last.txn] = "SHRINKING"
  /\ \E t \in Txns : txn_state[t] = "ABORTED"

\* C25: LockUpgrade(t, r) by a GROWING transaction with a granted SHARED
\* request on r returns true only when that request is the head of r's queue;
\* on return the head is EXCLUSIVE and granted, r has left t's shared lock set
\* and is in t's exclusive lock set, and every other request of the queue is as
\* it was and where it was.
C25_Upgrade ==
  (lm_last.op \in {"LockUpgrade", "WakeUpgrade"} /\ lm_last.ret = "true")
  => LET t == lm_last.txn
         r == lm_last.rid
         before == lm_last.pre.list
     IN /\ Len(before) > 0
        /\ before[1] = Request(t, "SHARED", TRUE)
        /\ lock_table_[r].list
             = [before EXCEPT ![1] = Request(t, "EXCLUSIVE", TRUE)]
        /\ r \notin shared_lock_set[t]
        /\ r \in exclusive_lock_set[t]

\* An upgrade that had to wait behind another shared lock has been granted at
\* the head of a queue that holds a further request.
C25_Witness ==
  /\ lm_last.op = "WakeUpgrade"
  /\ lm_last.ret = "true"
  /\ Len(lock_table_[lm_last.rid].list) > 1
  /\ lock_table_[lm_last.rid].list[1]
       = Request(lm_last.txn, "EXCLUSIVE", TRUE)

\* C27: in every reachable state, for every rid with a non-empty queue, oldest
\* is the smallest transaction id among the requests in the queue.
C27_Oldest ==
  \A r \in Rids :
    ListOf(r) # <<>> => lock_table_[r].oldest = SetMin(IdsIn(ListOf(r)))

\* C28: in every reachable state, for every rid, exclusive_cnt is the number
\* of EXCLUSIVE requests in the rid's queue (and so is never below zero).
C28_ExclusiveCnt ==
  \A r \in Rids :
    lock_table_[r].exclusive_cnt
      = Cardinality({i \in 1..Len(ListOf(r)) : ListOf(r)[i].mode = "EXCLUSIVE"})

C30_FreeRid ==
  ( /\ lm_last.op \in {"LockShared", "LockExclusive"}
    /\ lm_last.pre.list = <<>>
    /\ lm_last.prestate = "GROWING" )
  => /\ lm_last.ret = "true"
     /\ txn_state[lm_last.txn] = "GROWING"

(***************************************************************************)
(* EXTENDIBLE HASH TABLE                                                   *)
(***************************************************************************)

\* Bounds: the keys are 0 .. MaxKey, the values 1 .. NumValues, the bucket
\* size given to the constructor is 1 .. MaxBucketSize, and at most MaxHashCalls
\* Insert and Remove calls are made.
MaxKey == 7
NumValues == 1
MaxBucketSize == 2
MaxHashCalls == 6

EHKeys == 0 .. MaxKey
EHValues == 1 .. NumValues

\* sizeof(size_t), the depth at which split stops and chains an overflow bucket.
SizeofSizeT == 8

\* The width of int: 1 << n is undefined from n = 31 on.
IntBits == 32

VARIABLES
  bucket_size_,     \* ExtendibleHash::bucket_size_
  bucket_count_,    \* ExtendibleHash::bucket_count_
  depth,            \* ExtendibleHash::depth, the global depth
  buckets_,         \* ExtendibleHash::buckets_, the directory: slot -> Bucket or 0
  bucket_heap,      \* the Bucket objects the shared_ptrs point to
  eh_fault,         \* split has run into an undefined shift
  eh_map,           \* history: the value last inserted for every key, 0 if none
  eh_last,          \* history: the last call and what it returned
  eh_calls,         \* history: the number of Insert and Remove calls made
  eh_thread         \* the position of every thread inside its Insert call

ehVars == <<bucket_size_, bucket_count_, depth, buckets_, bucket_heap,
            eh_fault, eh_map, eh_last, eh_calls, eh_thread>>

\* Bounds of the concurrent runs: NumHashThreads threads make one Insert call
\* each, with a key in 0 .. MaxConcKey.
NumHashThreads == 3
MaxConcKey == 2

HashThreads == 1 .. NumHashThreads
ConcKeys == 0 .. MaxConcKey

\* A thread that has not called Insert yet.
ThreadIdle == [pc |-> "idle", key |-> 0, bucket_id |-> 0, bucket |-> 0,
               new_bucket |-> 0]

\* std::hash<int> is the identity.
HashKey(k) == k

Pow2(n) == 2 ^ n

\* h & (1 << n), as a truth value
BitSet(h, n) == (h \div Pow2(n)) % 2 = 1

\* h & ((1 << n) - 1)
LowBits(h, n) == h % Pow2(n)

NoItems == [k \in EHKeys |-> 0]

ItemKeys(items) == {k \in EHKeys : items[k] # 0}

Bucket(i, d) == [id |-> i, depth |-> d, items |-> NoItems, next |-> 0]

\* ExtendibleHash::bucketIndex
bucketIndex(k) == LowBits(HashKey(k), depth)

SetMax(S) == CHOOSE x \in S : \A y \in S : x >= y

\* The buckets of the overflow chain that starts at bucket b (b included).
RECURSIVE Chain(_, _)
Chain(heap, b) == IF b = 0 THEN <<>> ELSE <<b>> \o Chain(heap, heap[b].next)

\* ExtendibleHash::Find: <<found, value>>
Find(k) ==
  LET b == buckets_[bucketIndex(k)]
      c == Chain(bucket_heap, b)
      hits == {i \in 1..Len(c) : bucket_heap[c[i]].items[k] # 0}
  IN IF hits = {} THEN <<FALSE, 0>>
     ELSE <<TRUE, bucket_heap[c[CHOOSE i \in hits : \A j \in hits : i <= j]].items[k]>>

\* One round of the loop of split on the bucket b and the new bucket res.
SplitRound(b, res) ==
  LET d == b.depth + 1
      moved == {k \in ItemKeys(b.items) : BitSet(HashKey(k), d - 1)}
      kept == ItemKeys(b.items) \ moved
      resItems == [k \in EHKeys |-> IF k \in moved THEN b.items[k] ELSE res.items[k]]
      resId == IF moved = {} THEN res.id ELSE LowBits(HashKey(SetMax(moved)), d)
      bItems == [k \in EHKeys |-> IF k \in kept THEN b.items[k] ELSE 0]
  IN IF kept = {}
     THEN <<[b EXCEPT !.depth = d, !.items = resItems, !.id = resId],
            [res EXCEPT !.depth = res.depth + 1, !.items = NoItems, !.id = resId]>>
     ELSE <<[b EXCEPT !.depth = d, !.items = bItems],
            [res EXCEPT !.depth = res.depth + 1, !.items = resItems, !.id = resId]>>

\* The loop of split: <<b, res, defined>>; defined is FALSE once the loop
\* shifts 1 by the width of int or more.
RECURSIVE SplitLoop(_, _)
SplitLoop(b, res) ==
  IF b.depth >= IntBits - 1 THEN <<b, res, FALSE>>
  ELSE LET r == SplitRound(b, res) IN
         IF r[1].depth = SizeofSizeT THEN <<r[1], r[2], TRUE>>
         ELSE IF ItemKeys(r[2].items) = {} THEN SplitLoop(r[1], r[2])
         ELSE <<r[1], r[2], TRUE>>

\* The directory after Insert has doubled it for the split bucket b (heap index
\* bi, found through slot bucket_id) whose depth now exceeds the global depth.
GrowDirectory(dir, oldDepth, b, bi, bucket_id) ==
  LET size == Pow2(oldDepth)
      newSize == Pow2(b.depth)
      copied == [j \in 0..(newSize - 1) |->
                   IF j < size THEN dir[j]
                   ELSE IF dir[j % size] # bi THEN dir[j % size] ELSE 0]
  IN IF b.id # bucket_id
     THEN [copied EXCEPT ![bucket_id] = 0, ![b.id] = bi]
     ELSE copied

\* The table after ExtendibleHash(size).
EHConstructed(size) ==
  /\ bucket_size_ = size
  /\ bucket_count_ = 1
  /\ depth = 0
  /\ bucket_heap = <<Bucket(0, 0)>>
  /\ buckets_ = [j \in 0..0 |-> 1]
  /\ eh_fault = FALSE
  /\ eh_map = [k \in EHKeys |-> 0]
  /\ eh_last = [op |-> "none", key |-> 0, ret |-> FALSE]
  /\ eh_calls = 0
  /\ eh_thread = [t \in HashThreads |-> ThreadIdle]

EHInit == \E size \in 1..MaxBucketSize : EHConstructed(size)

\* ExtendibleHash::Insert
Insert(k, v) ==
  /\ ~eh_fault
  /\ eh_calls < MaxHashCalls
  /\ eh_calls' = eh_calls + 1
  /\ eh_map' = [eh_map EXCEPT ![k] = v]
  /\ eh_last' = [op |-> "Insert", key |-> k, ret |-> TRUE]
  /\ UNCHANGED <<bucket_size_, eh_thread>>
  /\ LET bucket_id == bucketIndex(k)
         fresh == buckets_[bucket_id] = 0
         heap0 == IF fresh THEN Append(bucket_heap, Bucket(bucket_id, depth))
                  ELSE bucket_heap
         dir0 == IF fresh THEN [buckets_ EXCEPT ![bucket_id] = Len(heap0)] ELSE buckets_
         cnt0 == IF fresh THEN bucket_count_ + 1 ELSE bucket_count_
         bi == dir0[bucket_id]
         b0 == heap0[bi]
         b1 == [b0 EXCEPT !.items[k] = v]
     IN IF b0.items[k] # 0 \/ Cardinality(ItemKeys(b1.items)) <= bucket_size_
        THEN \* overwrite, or room in the bucket
             /\ bucket_heap' = [heap0 EXCEPT ![bi] = b1]
             /\ buckets_' = dir0
             /\ bucket_count_' = cnt0
             /\ UNCHANGED <<depth, eh_fault>>
        ELSE LET sp == SplitLoop(b1, Bucket(0, b1.depth))
                 b2 == sp[1]
                 res == sp[2]
                 ni == Len(heap0) + 1
             IN IF ~sp[3]
                THEN /\ eh_fault' = TRUE
                     /\ UNCHANGED <<bucket_count_, depth, buckets_, bucket_heap>>
                ELSE IF b2.depth = SizeofSizeT
                THEN \* overflow: res is chained after the last bucket of the chain
                     LET heap1 == [heap0 EXCEPT ![bi] = b2]
                         c == Chain(heap1, bi)
                         lastb == c[Len(c)]
                     IN /\ bucket_heap' = Append([heap1 EXCEPT ![lastb].next = ni], res)
                        /\ buckets_' = dir0
                        /\ bucket_count_' = cnt0 + 1
                        /\ UNCHANGED <<depth, eh_fault>>
                ELSE /\ bucket_heap' = Append([heap0 EXCEPT ![bi] = b2], res)
                     /\ bucket_count_' = cnt0 + 1
                     /\ depth' = IF b2.depth > depth THEN b2.depth ELSE depth
                     /\ buckets_' =
                          LET dir1 == IF b2.depth > depth
                                      THEN GrowDirectory(dir0, depth, b2, bi, bucket_id)
                                      ELSE dir0
                          IN [dir1 EXCEPT ![res.id] = ni]
                     /\ UNCHANGED eh_fault

\* ExtendibleHash::Remove
Remove(k) ==
  /\ ~eh_fault
  /\ eh_calls < MaxHashCalls
  /\ eh_calls' = eh_calls + 1
  /\ LET c == Chain(bucket_heap, buckets_[bucketIndex(k)])
         hit == \E i \in 1..Len(c) : bucket_heap[c[i]].items[k] # 0
         erased == [i \in 1..Len(bucket_heap) |->
                      IF \E j \in 1..Len(c) : c[j] = i
                      THEN [bucket_heap[i] EXCEPT !.items[k] = 0]
                      ELSE bucket_heap[i]]
     IN /\ bucket_heap' = SubSeq(erased, 1, Len(bucket_heap))
        /\ eh_last' = [op |-> "Remove", key |-> k, ret |-> hit]
  /\ eh_map' = [eh_map EXCEPT ![k] = 0]
  /\ UNCHANGED <<bucket_size_, bucket_count_, depth, buckets_, eh_fault,
                 eh_thread>>

\* Insert run by thread t without any latch, first part: from the entry to
\* bucket->items.insert (or to the return after an overwrite).
CInsertBegin(t, k, v) ==
  /\ ~eh_fault
  /\ eh_thread[t].pc = "idle"
  /\ eh_map' = [eh_map EXCEPT ![k] = v]
  /\ LET bucket_id == bucketIndex(k)
         fresh == buckets_[bucket_id] = 0
         heap0 == IF fresh THEN Append(bucket_heap, Bucket(bucket_id, depth))
                  ELSE bucket_heap
         bi == IF fresh THEN Len(heap0) ELSE buckets_[bucket_id]
     IN /\ buckets_' = IF fresh THEN [buckets_ EXCEPT ![bucket_id] = bi] ELSE buckets_
        /\ bucket_count_' = IF fresh THEN bucket_count_ + 1 ELSE bucket_count_
        /\ bucket_heap' = [heap0 EXCEPT ![bi].items[k] = v]
        /\ eh_thread' = [eh_thread EXCEPT ![t] =
                           [pc |-> IF heap0[bi].items[k] # 0 THEN "done" ELSE "inserted",
                            key |-> k, bucket_id |-> bucket_id, bucket |-> bi,
                            new_bucket |-> 0]]
  /\ UNCHANGED <<bucket_size_, depth, eh_fault, eh_last, eh_calls>>

\* Second part: the test bucket->items.size() > bucket_size_.
CInsertTest(t) ==
  /\ ~eh_fault
  /\ eh_thread[t].pc = "inserted"
  /\ eh_thread' = [eh_thread EXCEPT ![t].pc =
                     IF Cardinality(ItemKeys(bucket_heap[eh_thread[t].bucket].items))
                          > bucket_size_
                     THEN "full" ELSE "done"]
  /\ UNCHANGED <<bucket_size_, bucket_count_, depth, buckets_, bucket_heap,
                 eh_fault, eh_map, eh_last, eh_calls>>

\* Third part: the call of split on the bucket found full.
CInsertSplit(t) ==
  /\ ~eh_fault
  /\ eh_thread[t].pc = "full"
  /\ LET bi == eh_thread[t].bucket
         b == bucket_heap[bi]
         sp == SplitLoop(b, Bucket(0, b.depth))
         b2 == sp[1]
         res == sp[2]
         ni == Len(bucket_heap) + 1
     IN IF ~sp[3]
        THEN /\ eh_fault' = TRUE
             /\ UNCHANGED <<bucket_count_, bucket_heap, eh_thread>>
        ELSE IF b2.depth = SizeofSizeT
        THEN LET heap1 == [bucket_heap EXCEPT ![bi] = b2]
                 c == Chain(heap1, bi)
                 lastb == c[Len(c)]
             IN /\ bucket_heap' = Append([heap1 EXCEPT ![lastb].next = ni], res)
                /\ bucket_count_' = bucket_count_ + 1
                /\ eh_thread' = [eh_thread EXCEPT ![t].pc = "done"]
                /\ UNCHANGED eh_fault
        ELSE /\ bucket_heap' = Append([bucket_heap EXCEPT ![bi] = b2], res)
             /\ bucket_count_' = bucket_count_ + 1
             /\ eh_thread' = [eh_thread EXCEPT ![t].pc = "split",
                                               ![t].new_bucket = ni]
             /\ UNCHANGED eh_fault
  /\ UNCHANGED <<bucket_size_, depth, buckets_, eh_map, eh_last, eh_calls>>

\* Last part: the directory is rearranged for the split bucket and new_bucket.
CInsertDirectory(t) ==
  /\ ~eh_fault
  /\ eh_thread[t].pc = "split"
  /\ LET bi == eh_thread[t].bucket
         ni == eh_thread[t].new_bucket
         b == bucket_heap[bi]
         res == bucket_heap[ni]
         dir1 == IF b.depth > depth
                 THEN GrowDirectory(buckets_, depth, b, bi, eh_thread[t].bucket_id)
                 ELSE buckets_
     IN IF res.id \in DOMAIN dir1
        THEN /\ buckets_' = [dir1 EXCEPT ![res.id] = ni]
             /\ depth' = IF b.depth > depth THEN b.depth ELSE depth
             /\ eh_thread' = [eh_thread EXCEPT ![t].pc = "done"]
             /\ UNCHANGED eh_fault
        ELSE /\ eh_fault' = TRUE
             /\ UNCHANGED <<buckets_, depth, eh_thread>>
  /\ UNCHANGED <<bucket_size_, bucket_count_, bucket_heap, eh_map, eh_last,
                 eh_calls>>

EHNext ==
  \/ \E k \in EHKeys, v \in EHValues : Insert(k, v)
  \/ \E k \in EHKeys : Remove(k)

(***************************************************************************)
(* Extendible hash: properties                                             *)
(***************************************************************************)

\* C3: every key whose most recent operation was Insert(k, v) is found, with
\* value v.
C3_FindLastInserted ==
  ~eh_fault => \A k \in EHKeys : eh_map[k] # 0 => Find(k) = <<TRUE, eh_map[k]>>

\* The buckets the directory slots point to.
DirBuckets == {buckets_[j] : j \in DOMAIN buckets_} \ {0}

\* C31: in every state reached by Insert and Remove calls the global depth is
\* at least the local depth of every bucket a directory slot points to.
C31_DepthInvariant ==
  ~eh_fault => \A b \in DirBuckets : depth >= bucket_heap[b].depth

\* C32: in every reachable state the directory has 2^depth slots, every slot
\* points to a bucket, and for the bucket B of local depth d under slot i every
\* slot j with j = i modulo 2^d points to B and every key stored in B has a
\* hash equal to i modulo 2^d.
C32_Directory ==
  ~eh_fault =>
    /\ DOMAIN buckets_ = 0 .. (Pow2(depth) - 1)
    /\ \A i \in DOMAIN buckets_ :
         /\ buckets_[i] # 0
         /\ LET B == bucket_heap[buckets_[i]]
                m == Pow2(B.depth)
            IN /\ \A j \in DOMAIN buckets_ :
                    j % m = i % m => buckets_[j] = buckets_[i]
               /\ \A k \in ItemKeys(B.items) : HashKey(k) % m = i % m

\* The buckets of the overflow chain that starts at bucket b.
ChainSet(b) ==
  LET c == Chain(bucket_heap, b) IN {c[j] : j \in 1..Len(c)}

\* C33: bucket_count_ is the number of distinct buckets reached from the
\* directory slots and their overflow chains.
C33_BucketCount ==
  ~eh_fault =>
    bucket_count_ =
      Cardinality(UNION {ChainSet(b) : b \in DirBuckets})

\* The number of bits of a hash value: sizeof(size_t) * 8.
HashBits == SizeofSizeT * 8

\* C34: an overflow bucket is chained only to a bucket whose local depth is
\* the number of bits of a hash value; a bucket of smaller local depth is
\* split into the directory and has no overflow chain.
C34_OverflowAtSaturation ==
  ~eh_fault =>
    \A b \in 1..Len(bucket_heap) :
      bucket_heap[b].next # 0 => bucket_heap[b].depth = HashBits

(***************************************************************************)
(* LRU REPLACER                                                            *)
(***************************************************************************)

\* Bounds: the values are 1 .. NumLruValues; the heap has room for the dummy
\* head node and NumLruNodes further nodes.
NumLruValues == 4
NumLruNodes == 4
MaxLruCalls == 8

LruValues == 1 .. NumLruValues

\* Node addresses: 0 is nullptr, 1 the dummy node made by the constructor.
NullNode == 0
HeadNode == 1
LruAddrs == 1 .. (NumLruNodes + 1)

VARIABLES
  lru,          \* the LRUReplacer and its heap: nodes, live, tail_, table_, size_, fault
  lru_order,    \* history: the values in the replacer, least recently inserted first
  lru_last,     \* history: the last call, its argument or victim, and its result
  lru_calls     \* the number of calls made so far

lruVars == <<lru, lru_order, lru_last, lru_calls>>

\* A replacer whose last call ran into undefined behaviour or a failed assert.
Faulted(m) == [m EXCEPT !.fault = TRUE]

\* Reading or writing *a is defined only for a live node.
Valid(m, a) == a # NullNode /\ a \in m.live

\* The contents of freed memory, which no defined execution reads.
FreedNode == [data |-> 0, pre |-> NullNode, next |-> NullNode]

\* delete a: the destructor of a node destroys its next, deleting the chain.
RECURSIVE DeleteNode(_, _)
DeleteNode(m, a) ==
  IF a = NullNode THEN m
  ELSE IF a \notin m.live THEN Faulted(m)
  ELSE LET n == m.nodes[a].next
           m1 == [m EXCEPT !.live = @ \ {a}, !.nodes[a] = FreedNode]
       IN DeleteNode(m1, n)

\* LRUReplacer(): a dummy head node; head_ and tail_ point to it.
LruConstructed ==
  [nodes |-> [a \in LruAddrs |-> FreedNode],
   live |-> {HeadNode},
   tail_ |-> HeadNode,
   table_ |-> [v \in LruValues |-> NullNode],
   size_ |-> 0,
   fault |-> FALSE]

\* Insert of a value that table_ does not hold, the new node placed at address a.
LruInsertNew(m, v, a) ==
  IF ~Valid(m, m.tail_) THEN Faulted(m)
  ELSE LET old == m.nodes[m.tail_].next
           m1 == [m EXCEPT !.live = @ \cup {a},
                           !.nodes[a] = [data |-> v, pre |-> m.tail_, next |-> NullNode],
                           !.nodes[m.tail_].next = a]
           m2 == DeleteNode(m1, old)
       IN [m2 EXCEPT !.tail_ = a, !.table_[v] = a, !.size_ = @ + 1]

\* The first three statements shared by Insert (value present) and Erase:
\*   node *pre = it->second->pre; cur = std::move(pre->next);
\*   pre->next = std::move(cur->next); pre->next->pre = pre;
\* <<replacer, cur>>
LruUnlink(m, v) ==
  LET n == m.table_[v] IN
  IF ~Valid(m, n) THEN <<Faulted(m), NullNode>>
  ELSE LET pre == m.nodes[n].pre IN
  IF ~Valid(m, pre) THEN <<Faulted(m), NullNode>>
  ELSE LET cur == m.nodes[pre].next IN
  IF ~Valid(m, cur) THEN <<Faulted(m), NullNode>>
  ELSE LET succ == m.nodes[cur].next IN
  IF ~Valid(m, succ) THEN <<Faulted(m), NullNode>>
  ELSE <<[m EXCEPT !.nodes[cur].next = NullNode,
                   !.nodes[pre].next = succ,
                   !.nodes[succ].pre = pre], cur>>

\* Insert of a value that table_ holds: the node is moved to the tail.
LruInsertOld(m, v) ==
  LET u == LruUnlink(m, v)
      m1 == u[1]
      cur == u[2]
  IN IF m1.fault THEN m1
     ELSE IF ~Valid(m1, m1.tail_) THEN Faulted(m1)
     ELSE LET old == m1.nodes[m1.tail_].next
              m2 == [m1 EXCEPT !.nodes[cur].pre = m1.tail_,
                               !.nodes[m1.tail_].next = cur]
              m3 == DeleteNode(m2, old)
          IN [m3 EXCEPT !.tail_ = cur]

\* LRUReplacer::Victim: <<replacer, returned, value>>
LruVictim(m) ==
  IF m.size_ = 0
  THEN IF m.tail_ = HeadNode THEN <<m, FALSE, 0>> ELSE <<Faulted(m), FALSE, 0>>
  ELSE LET f == m.nodes[HeadNode].next IN
       IF ~Valid(m, f) THEN <<Faulted(m), FALSE, 0>>
       ELSE LET v == m.nodes[f].data
                m1 == [m EXCEPT !.nodes[HeadNode].next = m.nodes[f].next,
                                !.nodes[f].next = NullNode]
                m2 == DeleteNode(m1, f)
                m3 == [m2 EXCEPT !.table_[v] = NullNode, !.size_ = @ - 1]
            IN <<IF m3.size_ = 0 THEN [m3 EXCEPT !.tail_ = HeadNode] ELSE m3, TRUE, v>>

\* LRUReplacer::Erase: <<replacer, returned>>
LruErase(m, v) ==
  IF m.table_[v] = NullNode THEN <<m, FALSE>>
  ELSE LET u == LruUnlink(m, v)
           m1 == u[1]
       IN IF m1.fault THEN <<m1, FALSE>>
          ELSE LET m2 == [m1 EXCEPT !.table_[v] = NullNode, !.size_ = @ - 1]
                   m3 == IF m2.size_ = 0 THEN [m2 EXCEPT !.tail_ = HeadNode] ELSE m2
               IN <<DeleteNode(m3, u[2]), TRUE>>

\* The sequence s without the value v.
Without(s, v) == SelectSeq(s, LAMBDA x : x # v)

LRUInit ==
  /\ lru = LruConstructed
  /\ lru_order = <<>>
  /\ lru_last = [op |-> "none", val |-> 0, ret |-> FALSE, before |-> <<>>]
  /\ lru_calls = 0

\* LRUReplacer::Insert(value)
LRUInsert(v) ==
  /\ ~lru.fault
  /\ lru_calls < MaxLruCalls
  /\ lru_calls' = lru_calls + 1
  /\ \/ /\ lru.table_[v] = NullNode
        /\ \E a \in LruAddrs \ lru.live : lru' = LruInsertNew(lru, v, a)
     \/ /\ lru.table_[v] # NullNode
        /\ lru' = LruInsertOld(lru, v)
  /\ lru_order' = Append(Without(lru_order, v), v)
  /\ lru_last' = [op |-> "Insert", val |-> v, ret |-> TRUE, before |-> lru_order]

\* LRUReplacer::Victim(value)
LRUVictim ==
  /\ ~lru.fault
  /\ lru_calls < MaxLruCalls
  /\ lru_calls' = lru_calls + 1
  /\ LET r == LruVictim(lru) IN
       /\ lru' = r[1]
       /\ lru_last' = [op |-> "Victim", val |-> r[3], ret |-> r[2], before |-> lru_order]
  /\ lru_order' = IF lru_order = <<>> THEN <<>> ELSE Tail(lru_order)

\* LRUReplacer::Erase(value)
LRUErase(v) ==
  /\ ~lru.fault
  /\ lru_calls < MaxLruCalls
  /\ lru_calls' = lru_calls + 1
  /\ LET r == LruErase(lru, v) IN
       /\ lru' = r[1]
       /\ lru_last' = [op |-> "Erase", val |-> v, ret |-> r[2], before |-> lru_order]
  /\ lru_order' = Without(lru_order, v)

(***************************************************************************)
(* LRU replacer: properties                                                *)
(***************************************************************************)

\* What successive Victim calls return from the replacer m; the sequence ends
\* with 0 if a call runs into undefined behaviour.
RECURSIVE VictimSeq(_, _)
VictimSeq(m, n) ==
  IF n = 0 THEN <<>>
  ELSE LET r == LruVictim(m) IN
         IF r[1].fault THEN <<0>>
         ELSE IF ~r[2] THEN <<>>
         ELSE <<r[3]>> \o VictimSeq(r[1], n - 1)

\* C6: after any sequence of Insert / Erase / Victim calls the replacer is
\* usable and successive Victim calls return the values still in it, least
\* recently inserted first, each once; Victim on an empty replacer returns
\* false and changes nothing.
C6_VictimOrder ==
  /\ ~lru.fault
  /\ VictimSeq(lru, NumLruNodes + 1) = lru_order
  /\ (lru_last.op = "Victim" /\ lru_last.before = <<>>) => ~lru_last.ret

\* C7: Insert of a value already in the replacer returns with that value at the
\* most recently used end, Size() unchanged and the other values in their
\* previous relative order, wherever the value stood in the list.
C7_InsertTouch ==
  ( /\ lru_last.op = "Insert"
    /\ \E i \in 1..Len(lru_last.before) : lru_last.before[i] = lru_last.val )
  => ( /\ ~lru.fault
       /\ lru.size_ = Len(lru_last.before)
       /\ VictimSeq(lru, NumLruNodes + 1)
            = Append(Without(lru_last.before, lru_last.val), lru_last.val) )

\* C17: Erase(v) returns true iff v is in the replacer; then Size() is one
\* less and the remaining values keep their victim order without v, wherever
\* v stood in the list (the most recently inserted value included); when it
\* returns false nothing changes.
C17_Erase ==
  lru_last.op = "Erase" =>
    IF \E i \in 1..Len(lru_last.before) : lru_last.before[i] = lru_last.val
    THEN /\ ~lru.fault
         /\ lru_last.ret
         /\ lru.size_ = Len(lru_last.before) - 1
         /\ VictimSeq(lru, NumLruNodes + 1) = Without(lru_last.before, lru_last.val)
    ELSE /\ ~lru_last.ret
         /\ lru.size_ = Len(lru_last.before)
         /\ VictimSeq(lru, NumLruNodes + 1) = lru_last.before

\* The nodes reached from the node a through next pointers, a left out, in
\* list order; the walk ends at nullptr, at a freed node or after n nodes.
RECURSIVE LruReach(_, _, _)
LruReach(m, a, n) ==
  IF n = 0 \/ a \notin m.live THEN <<>>
  ELSE LET x == m.nodes[a].next IN
         IF x = NullNode \/ x \notin m.live THEN <<>>
         ELSE <<x>> \o LruReach(m, x, n - 1)

\* The nodes of the list of the replacer, the sentinel left out.
LruList == LruReach(lru, HeadNode, NumLruNodes + 1)

\* C35: after any sequence of Insert / Erase / Victim calls Size() is the
\* number of nodes reachable from the sentinel head and the number of entries
\* of the side index; the index maps each stored value to the node holding
\* it, and no value is in two nodes (stated for the calls that return without
\* undefined behaviour).
C35_SizeInvariant ==
  ~lru.fault =>
    /\ lru.size_ = Len(LruList)
    /\ lru.size_ = Cardinality({v \in LruValues : lru.table_[v] # NullNode})
    /\ \A i \in 1..Len(LruList) : lru.table_[lru.nodes[LruList[i]].data] = LruList[i]
    /\ \A i, j \in 1..Len(LruList) :
         lru.nodes[LruList[i]].data = lru.nodes[LruList[j]].data => i = j

\* C36: after any sequence of Insert / Erase / Victim calls the list is a
\* well-formed doubly linked list: the pre pointer of the first node is the
\* sentinel, the pre pointer of every further node is the node before it, and
\* tail_ is the last reachable node (the sentinel when the list is empty);
\* stated for the calls that return without undefined behaviour.
C36_LinkIntegrity ==
  ~lru.fault =>
    /\ \A i \in 1..Len(LruList) :
         lru.nodes[LruList[i]].pre = (IF i = 1 THEN HeadNode ELSE LruList[i - 1])
    /\ lru.tail_ = (IF LruList = <<>> THEN HeadNode ELSE LruList[Len(LruList)])

(***************************************************************************)
(* B+ TREE                                                                 *)
(***************************************************************************)

\* Bounds: keys 1 .. MaxTreeKey, values 1 .. NumTreeValues, MaxTreeCalls calls,
\* a buffer pool of PoolSize frames, and pages that hold LeafMaxSize records
\* or InternalMaxSize children.
MaxTreeKey == 4
NumTreeValues == 1
MaxTreeCalls == 6
PoolSize == 5
LeafMaxSize == 2
InternalMaxSize == 2

TreeKeys == 1 .. MaxTreeKey
TreeValues == 1 .. NumTreeValues

INVALID_PAGE_ID == -1
HEADER_PAGE_ID == 0

VARIABLES
  bt,         \* the tree, the pages it made and the header record:
              \* pages, root_page_id_, header, fault
  bt_ins,     \* history: for each key, the values Insert returned true for
  bt_last,    \* history: the last call, its arguments, result and prior tree
  bt_calls    \* the number of calls made so far

btVars == <<bt, bt_ins, bt_last, bt_calls>>

\* ---- buffer pool manager and disk manager -------------------------------

\* A page as NewPage hands it out, seen through the page class it is cast to.
NewPageRec(type) ==
  [type |-> type, keys |-> <<>>, vals |-> <<>>,
   parent |-> INVALID_PAGE_ID, next |-> INVALID_PAGE_ID, pin |-> 1]

BTFail(t, why) == [t EXCEPT !.fault = why]

PinnedCount(t) == Cardinality({p \in DOMAIN t.pages : t.pages[p].pin > 0})

\* A free frame or a victim exists exactly when some frame is not pinned.
FrameAvailable(t) == PinnedCount(t) < PoolSize

\* FetchPage(p) returns a page, not nullptr.
CanFetch(t, p) ==
  /\ p \in DOMAIN t.pages
  /\ t.pages[p].pin > 0 \/ FrameAvailable(t)

FetchPage(t, p) == [t EXCEPT !.pages[p].pin = @ + 1]

UnpinPage(t, p) ==
  IF t.pages[p].pin > 0 THEN [t EXCEPT !.pages[p].pin = @ - 1] ELSE t

\* A page after DeletePage: its frame is zeroed and its page id deallocated.
FreePage ==
  [type |-> "free", keys |-> <<>>, vals |-> <<>>,
   parent |-> INVALID_PAGE_ID, next |-> INVALID_PAGE_ID, pin |-> 0]

\* DeletePage(p) fails on a pinned page.
DeletePage(t, p) ==
  IF t.pages[p].pin > 0 THEN t ELSE [t EXCEPT !.pages[p] = FreePage]

\* NewPage(page_id): the disk manager allocates the next page id.
NewPageId(t) == Len(t.pages) + 1

NewPage(t, type) == [t EXCEPT !.pages = Append(@, NewPageRec(type))]

\* ---- page primitives -----------------------------------------------------

\* s with x put in as its i-th element
InsertAt(s, i, x) == SubSeq(s, 1, i - 1) \o <<x>> \o SubSeq(s, i, Len(s))

\* The index at which key k goes into the sorted sequence keys.
KeyIndex(keys, k) == Cardinality({j \in 1..Len(keys) : keys[j] < k}) + 1

\* B_PLUS_TREE_LEAF_PAGE::Insert
LeafInsert(pg, k, v) ==
  LET i == KeyIndex(pg.keys, k)
  IN [pg EXCEPT !.keys = InsertAt(@, i, k), !.vals = InsertAt(@, i, v)]

\* B_PLUS_TREE_LEAF_PAGE::Lookup: <<found, value>>
LeafLookup(pg, k) ==
  IF \E j \in 1..Len(pg.keys) : pg.keys[j] = k
  THEN <<TRUE, pg.vals[CHOOSE j \in 1..Len(pg.keys) :
                  /\ pg.keys[j] = k
                  /\ \A i \in 1..(j - 1) : pg.keys[i] # k]>>
  ELSE <<FALSE, 0>>

\* B_PLUS_TREE_INTERNAL_PAGE::Lookup: the child whose subtree would hold k;
\* the key of the first entry is ignored.
InternalLookup(pg, k) ==
  LET S == {j \in 2..Len(pg.keys) : pg.keys[j] <= k}
  IN IF S = {} THEN pg.vals[1]
     ELSE pg.vals[CHOOSE j \in S : \A i \in S : i <= j]

\* B_PLUS_TREE_INTERNAL_PAGE::ValueIndex, 0 if no entry holds the child
ValueIndex(pg, child) ==
  IF \E j \in 1..Len(pg.vals) : pg.vals[j] = child
  THEN CHOOSE j \in 1..Len(pg.vals) :
         /\ pg.vals[j] = child
         /\ \A i \in 1..(j - 1) : pg.vals[i] # child
  ELSE 0

\* B_PLUS_TREE_INTERNAL_PAGE::InsertNodeAfter
InsertNodeAfter(pg, old, k, new) ==
  LET i == ValueIndex(pg, old) + 1
  IN [pg EXCEPT !.keys = InsertAt(@, i, k), !.vals = InsertAt(@, i, new)]

\* B_PLUS_TREE_INTERNAL_PAGE::PopulateNewRoot
PopulateNewRoot(pg, left, k, right) ==
  [pg EXCEPT !.keys = <<0, k>>, !.vals = <<left, right>>]

\* MoveHalfTo: the upper half of the entries of page p goes to the empty page
\* q; leaves are linked into the sibling chain, the children an internal
\* page hands over get q as their parent.
MoveHalfTo(t, p, q) ==
  LET pg == t.pages[p]
      n == Len(pg.keys)
      keep == n - ((n + 1) \div 2)
      moved == {pg.vals[j] : j \in (keep + 1)..n}
      after == [x \in DOMAIN t.pages |->
       IF x = p THEN [pg EXCEPT !.keys = SubSeq(pg.keys, 1, keep),
                                !.vals = SubSeq(pg.vals, 1, keep),
                                !.next = IF pg.type = "leaf" THEN q ELSE @]
       ELSE IF x = q THEN [t.pages[q] EXCEPT !.keys = SubSeq(pg.keys, keep + 1, n),
                                             !.vals = SubSeq(pg.vals, keep + 1, n),
                                             !.next = pg.next]
       ELSE IF pg.type = "internal" /\ x \in moved THEN [t.pages[x] EXCEPT !.parent = q]
       ELSE t.pages[x]]
  IN [t EXCEPT !.pages = SubSeq(after, 1, Len(t.pages))]

GetMaxSize(pg) == IF pg.type = "leaf" THEN LeafMaxSize ELSE InternalMaxSize

\* GetMinSize: the ceiling of max_size / 2
GetMinSize(pg) == (GetMaxSize(pg) + 1) \div 2

\* s without its i-th element
DropAt(s, i) == SubSeq(s, 1, i - 1) \o SubSeq(s, i + 1, Len(s))

\* The set of the elements of the sequence s.
Range(s) == {s[j] : j \in 1..Len(s)}

\* B_PLUS_TREE_LEAF_PAGE::RemoveAndDeleteRecord
RemoveAndDeleteRecord(pg, k) ==
  IF \E j \in 1..Len(pg.keys) : pg.keys[j] = k
  THEN LET i == CHOOSE j \in 1..Len(pg.keys) :
                  /\ pg.keys[j] = k
                  /\ \A h \in 1..(j - 1) : pg.keys[h] # k
       IN [pg EXCEPT !.keys = DropAt(@, i), !.vals = DropAt(@, i)]
  ELSE pg

\* B_PLUS_TREE_INTERNAL_PAGE::Remove(index): the entry at the 0-based index goes.
InternalRemove(pg, index) ==
  IF index + 1 \in 1..Len(pg.keys)
  THEN [pg EXCEPT !.keys = DropAt(@, index + 1), !.vals = DropAt(@, index + 1)]
  ELSE pg

\* The key of the parent of page p at the 0-based index, 0 if there is none.
ParentKeyAt(t, p, index) ==
  LET par == t.pages[p].parent IN
    IF par \in DOMAIN t.pages /\ index + 1 \in 1..Len(t.pages[par].keys)
    THEN t.pages[par].keys[index + 1] ELSE 0

\* The tree with the key of the parent of page p at the 0-based index set to k.
SetParentKeyAt(t, p, index, k) ==
  LET par == t.pages[p].parent IN
    IF par \in DOMAIN t.pages /\ index + 1 \in 1..Len(t.pages[par].keys)
    THEN [t EXCEPT !.pages[par].keys[index + 1] = k] ELSE t

\* The tree with the pages in S given the parent q.
Reparent(t, S, q) ==
  LET after == [x \in DOMAIN t.pages |->
                  IF x \in S THEN [t.pages[x] EXCEPT !.parent = q] ELSE t.pages[x]]
  IN [t EXCEPT !.pages = SubSeq(after, 1, Len(t.pages))]

\* MoveAllTo: every entry of page p goes to the end of page q; a leaf hands
\* over its next pointer, an internal page takes the key of its parent at
\* index as the key of its first entry and its children get q as parent.
MoveAllTo(t, p, q, index) ==
  LET pg == t.pages[p]
      keys == IF pg.type = "internal" /\ pg.keys # <<>>
              THEN <<ParentKeyAt(t, p, index)>> \o Tail(pg.keys) ELSE pg.keys
      t1 == [t EXCEPT !.pages[q].keys = @ \o keys,
                      !.pages[q].vals = @ \o pg.vals,
                      !.pages[q].next = IF pg.type = "leaf" THEN pg.next ELSE @,
                      !.pages[p].keys = <<>>,
                      !.pages[p].vals = <<>>]
  IN IF pg.type = "internal"
     THEN Reparent(t1, Range(pg.vals) \cap DOMAIN t.pages, q) ELSE t1

\* MoveFirstToEndOf: the first entry of page p, the right sibling of q, goes
\* to the end of q, and the key of p in the parent follows.
MoveFirstToEndOf(t, p, q) ==
  LET pg == t.pages[p]
      index == ValueIndex(t.pages[pg.parent], p) - 1
      key == IF pg.type = "internal" THEN ParentKeyAt(t, p, index) ELSE pg.keys[1]
      up == IF Len(pg.keys) > 1 THEN pg.keys[2] ELSE key
      t1 == [t EXCEPT !.pages[q].keys = Append(@, key),
                      !.pages[q].vals = Append(@, pg.vals[1]),
                      !.pages[p].keys = Tail(@),
                      !.pages[p].vals = Tail(@)]
      t2 == SetParentKeyAt(t1, p, index, up)
  IN IF pg.type = "internal"
     THEN Reparent(t2, {pg.vals[1]} \cap DOMAIN t.pages, q) ELSE t2

\* MoveLastToFrontOf: the last entry of page p, the left sibling of q, goes
\* to the front of q, and the key of q in the parent (at index) follows.
MoveLastToFrontOf(t, p, q, index) ==
  LET pg == t.pages[p]
      n == Len(pg.keys)
      down == ParentKeyAt(t, q, index)
      qkeys == IF pg.type = "internal"
               THEN <<0, down>> \o Tail(t.pages[q].keys)
               ELSE <<pg.keys[n]>> \o t.pages[q].keys
      t1 == [t EXCEPT !.pages[q].keys = qkeys,
                      !.pages[q].vals = <<pg.vals[n]>> \o @,
                      !.pages[p].keys = SubSeq(@, 1, n - 1),
                      !.pages[p].vals = SubSeq(@, 1, n - 1)]
      t2 == SetParentKeyAt(t1, q, index, pg.keys[n])
  IN IF pg.type = "internal"
     THEN Reparent(t2, {pg.vals[n]} \cap DOMAIN t.pages, q) ELSE t2

\* ---- the tree ------------------------------------------------------------

\* BPlusTree(name, buffer_pool_manager, comparator): an empty tree.
BTConstructed ==
  [pages |-> <<>>, root_page_id_ |-> INVALID_PAGE_ID,
   header |-> INVALID_PAGE_ID, fault |-> "none"]

IsEmpty(t) == t.root_page_id_ = INVALID_PAGE_ID

IsRootPage(pg) == pg.parent = INVALID_PAGE_ID

\* UpdateRootPageId: the header page is fetched, written and unpinned; with
\* every frame pinned FetchPage returns nullptr, which is dereferenced.
UpdateRootPageId(t) ==
  IF FrameAvailable(t) THEN [t EXCEPT !.header = t.root_page_id_]
  ELSE BTFail(t, "crash")

\* StartNewTree: the new root leaf is left pinned.
StartNewTree(t, k, v) ==
  IF ~FrameAvailable(t) THEN BTFail(t, "bad_alloc")
  ELSE LET id == NewPageId(t)
           t1 == [NewPage(t, "leaf") EXCEPT !.root_page_id_ = id]
           t2 == UpdateRootPageId(t1)
       IN IF t2.fault # "none" THEN t2
          ELSE [t2 EXCEPT !.pages[id] = LeafInsert(@, k, v)]

\* Split: a new page of the type of node takes the upper half of node.
Split(t, node) == MoveHalfTo(NewPage(t, t.pages[node].type), node, NewPageId(t))

\* InsertIntoParent(old_node, key, new_node)
RECURSIVE InsertIntoParent(_, _, _, _)
InsertIntoParent(t, old, key, new) ==
  IF IsRootPage(t.pages[old])
  THEN IF ~FrameAvailable(t) THEN BTFail(t, "bad_alloc")
       ELSE LET root == NewPageId(t)
                t1 == [NewPage(t, "internal") EXCEPT
                         !.root_page_id_ = root,
                         !.pages[root] = PopulateNewRoot(@, old, key, new),
                         !.pages[old].parent = root,
                         !.pages[new].parent = root]
                t2 == UpdateRootPageId(t1)
            IN IF t2.fault # "none" THEN t2
               ELSE UnpinPage(UnpinPage(UnpinPage(t2, old), new), root)
  ELSE LET internal == t.pages[old].parent IN
       IF ~CanFetch(t, internal) THEN BTFail(t, "bad_alloc")
       ELSE LET t1 == FetchPage(t, internal) IN
       IF Len(t1.pages[internal].keys) < GetMaxSize(t1.pages[internal])
       THEN LET t2 == [t1 EXCEPT
                         !.pages[internal] = InsertNodeAfter(@, old, key, new),
                         !.pages[new].parent = internal]
            IN UnpinPage(UnpinPage(UnpinPage(t2, old), new), internal)
       ELSE IF ~FrameAvailable(t1) THEN BTFail(t1, "bad_alloc")
       ELSE LET internal2 == NewPageId(t1)
                t2 == Split(t1, internal)
                target == IF key < t2.pages[internal2].keys[1]
                          THEN internal ELSE internal2
                t3 == [t2 EXCEPT
                         !.pages[target] = InsertNodeAfter(@, old, key, new),
                         !.pages[new].parent = target]
                t4 == UnpinPage(UnpinPage(t3, old), new)
            IN InsertIntoParent(t4, internal, t4.pages[internal2].keys[1], internal2)

\* The descent of InsertIntoLeaf from the pinned page node: <<tree, leaf>>
RECURSIVE InsertDescend(_, _, _)
InsertDescend(t, node, k) ==
  IF t.pages[node].type = "leaf" THEN <<t, node>>
  ELSE IF t.pages[node].type # "internal" \/ t.pages[node].vals = <<>>
  THEN <<BTFail(t, "crash"), node>>
  ELSE LET child == InternalLookup(t.pages[node], k)
           t1 == UnpinPage(t, node)
       IN IF ~CanFetch(t1, child) THEN <<BTFail(t1, "crash"), node>>
          ELSE InsertDescend(FetchPage(t1, child), child, k)

\* InsertIntoLeaf: <<tree, returned>>
InsertIntoLeaf(t, k, v) ==
  IF ~CanFetch(t, t.root_page_id_) THEN <<BTFail(t, "crash"), FALSE>>
  ELSE LET t0 == FetchPage(t, t.root_page_id_) IN
  IF ~IsRootPage(t0.pages[t0.root_page_id_]) THEN <<BTFail(t0, "assert"), FALSE>>
  ELSE LET d == InsertDescend(t0, t0.root_page_id_, k)
           t1 == d[1]
           leaf == d[2]
       IN
  IF t1.fault # "none" THEN <<t1, FALSE>>
  ELSE IF Len(t1.pages[leaf].keys) < GetMaxSize(t1.pages[leaf])
  THEN IF LeafLookup(t1.pages[leaf], k)[1] THEN <<t1, FALSE>>
       ELSE <<UnpinPage([t1 EXCEPT !.pages[leaf] = LeafInsert(@, k, v)], leaf), TRUE>>
  ELSE IF ~FrameAvailable(t1) THEN <<BTFail(t1, "bad_alloc"), FALSE>>
  ELSE LET leaf2 == NewPageId(t1)
           t2 == Split(t1, leaf)
           target == IF k < t2.pages[leaf2].keys[1] THEN leaf ELSE leaf2
           t3 == [t2 EXCEPT !.pages[target] = LeafInsert(@, k, v)]
           t4 == InsertIntoParent(t3, leaf, t3.pages[leaf2].keys[1], leaf2)
       IN <<t4, t4.fault = "none">>

\* BPlusTree::Insert: <<tree, returned>>
TreeInsert(t, k, v) ==
  IF IsEmpty(t)
  THEN LET t1 == StartNewTree(t, k, v) IN <<t1, t1.fault = "none">>
  ELSE InsertIntoLeaf(t, k, v)

\* AdjustRoot(old_root_node): <<tree, old root is to be deleted>>
AdjustRoot(t, old_root) ==
  LET pg == t.pages[old_root] IN
    IF pg.type = "leaf"
    THEN IF Len(pg.keys) = 0
         THEN <<UpdateRootPageId([t EXCEPT !.root_page_id_ = INVALID_PAGE_ID]), TRUE>>
         ELSE <<t, FALSE>>
    ELSE IF Len(pg.vals) = 1
         THEN <<UpdateRootPageId([t EXCEPT !.root_page_id_ = pg.vals[1]]), TRUE>>
         ELSE <<t, FALSE>>

\* Redistribute(neighbor_node, node, index): with index # 0 the parent is
\* fetched and stays pinned.
Redistribute(t, neighbor, node, index) ==
  IF index = 0 THEN MoveFirstToEndOf(t, neighbor, node)
  ELSE LET parent == t.pages[node].parent IN
         IF ~CanFetch(t, parent) THEN BTFail(t, "bad_alloc")
         ELSE LET t1 == FetchPage(t, parent) IN
                MoveLastToFrontOf(t1, neighbor, node,
                                  ValueIndex(t1.pages[parent], node) - 1)

\* CoalesceOrRedistribute(node): <<tree, node is to be deleted>>, and
\* Coalesce(neighbor_node, node, parent, index): <<tree, parent is to be deleted>>
RECURSIVE CoalesceOrRedistribute(_, _)
RECURSIVE Coalesce(_, _, _, _, _)
Coalesce(t, neighbor, node, parent, index) ==
  LET t1 == MoveAllTo(t, node, neighbor, index)
      t2 == [t1 EXCEPT !.pages[parent] = InternalRemove(@, index)]
      r == CoalesceOrRedistribute(t2, parent)
  IN IF r[1].fault # "none" THEN <<r[1], FALSE>>
     ELSE IF r[2] THEN <<DeletePage(UnpinPage(r[1], parent), parent), TRUE>>
     ELSE <<UnpinPage(r[1], parent), FALSE>>

CoalesceOrRedistribute(t, node) ==
  IF IsRootPage(t.pages[node]) THEN AdjustRoot(t, node)
  ELSE IF Len(t.pages[node].keys) >= GetMinSize(t.pages[node]) THEN <<t, FALSE>>
  ELSE LET parent == t.pages[node].parent IN
  IF ~CanFetch(t, parent) THEN <<BTFail(t, "bad_alloc"), FALSE>>
  ELSE LET t1 == FetchPage(t, parent)
           value_index == ValueIndex(t1.pages[parent], node) - 1
           at == IF value_index = 0 THEN 2 ELSE value_index
       IN
  IF value_index < 0 \/ at > Len(t1.pages[parent].vals)
  THEN <<BTFail(t1, "crash"), FALSE>>
  ELSE LET sibling == t1.pages[parent].vals[at] IN
  IF ~CanFetch(t1, sibling) THEN <<BTFail(t1, "crash"), FALSE>>
  ELSE IF t1.pages[sibling].type # t1.pages[node].type
  THEN <<BTFail(t1, "crash"), FALSE>>
  ELSE LET t2 == FetchPage(t1, sibling) IN
  IF Len(t2.pages[sibling].keys) + Len(t2.pages[node].keys)
       > GetMaxSize(t2.pages[node])
  THEN LET t3 == Redistribute(t2, sibling, node, IF value_index = 0 THEN 0 ELSE 1)
       IN IF t3.fault # "none" THEN <<t3, FALSE>>
          ELSE <<UnpinPage(UnpinPage(t3, sibling), parent), FALSE>>
  ELSE IF value_index = 0
  THEN LET c == Coalesce(t2, node, sibling, parent, value_index)
           t3 == IF c[2] THEN DeletePage(UnpinPage(c[1], parent), parent)
                 ELSE UnpinPage(c[1], parent)
       IN IF c[1].fault # "none" THEN <<c[1], FALSE>>
          ELSE <<DeletePage(UnpinPage(t3, sibling), sibling), FALSE>>
  ELSE LET c == Coalesce(t2, sibling, node, parent, value_index)
           t3 == IF c[2] THEN DeletePage(UnpinPage(c[1], parent), parent)
                 ELSE UnpinPage(c[1], parent)
       IN IF c[1].fault # "none" THEN <<c[1], FALSE>>
          ELSE <<UnpinPage(t3, sibling), TRUE>>

\* The descent of Remove from the pinned page node: <<tree, leaf>>
RemoveDescend(t, node, k) == InsertDescend(t, node, k)

\* BPlusTree::Remove: the tree after the call
TreeRemove(t, k) ==
  IF IsEmpty(t) THEN t
  ELSE IF ~CanFetch(t, t.root_page_id_) THEN BTFail(t, "crash")
  ELSE LET t0 == FetchPage(t, t.root_page_id_) IN
  IF ~IsRootPage(t0.pages[t0.root_page_id_]) THEN BTFail(t0, "assert")
  ELSE LET d == RemoveDescend(t0, t0.root_page_id_, k)
           leaf == d[2]
       IN
  IF d[1].fault # "none" THEN d[1]
  ELSE LET t1 == [d[1] EXCEPT !.pages[leaf] = RemoveAndDeleteRecord(@, k)]
           r == CoalesceOrRedistribute(t1, leaf)
       IN IF r[1].fault # "none" THEN r[1]
          ELSE IF r[2] THEN DeletePage(UnpinPage(r[1], leaf), leaf)
          ELSE UnpinPage(r[1], leaf)

\* What GetValue can read through a pointer cast to the wrong page class:
\* next is the child an internal-page Lookup takes from a leaf (any page id),
\* found and value the outcome of a leaf-page Lookup on a page that is no leaf.
WrongPageReads(t) ==
  [next : {INVALID_PAGE_ID, HEADER_PAGE_ID} \cup DOMAIN t.pages,
   found : BOOLEAN, value : 0 .. NumTreeValues]

\* BPlusTree::GetValue: <<tree, returned, value appended to result>>; the
\* return is "hang" when the loop cannot end.
GetValue(t, k, w) ==
  IF IsEmpty(t) THEN <<t, "false", 0>>
  ELSE IF ~CanFetch(t, t.root_page_id_) THEN <<t, "false", 0>>
  ELSE LET t1 == FetchPage(t, t.root_page_id_)
           root == t1.pages[t1.root_page_id_]
       IN
  IF root.type = "leaf"
  THEN \* the loop body runs on a leaf cast to an internal page
       IF w.next = HEADER_PAGE_ID
       THEN IF ~FrameAvailable(t1) THEN <<t1, "false", 0>>
            ELSE <<t1, IF w.found THEN "true" ELSE "false", IF w.found THEN w.value ELSE 0>>
       ELSE IF ~CanFetch(t1, w.next) THEN <<t1, "false", 0>>
       ELSE IF t1.pages[w.next].type = "leaf" THEN <<t1, "hang", 0>>
       ELSE IF w.found THEN <<UnpinPage(t1, w.next), "true", w.value>>
       ELSE <<t1, "false", 0>>
  ELSE \* the loop is skipped and the internal root is cast to a leaf page
       IF w.found THEN <<UnpinPage(t1, t1.root_page_id_), "true", w.value>>
       ELSE <<t1, "false", 0>>

BTInit ==
  /\ bt = BTConstructed
  /\ bt_ins = [k \in TreeKeys |-> {}]
  /\ bt_last = [op |-> "none", key |-> 0, val |-> 0, ret |-> "none", before |-> BTConstructed]
  /\ bt_calls = 0

\* A call of Insert(key, value)
BTInsert(k, v) ==
  /\ bt.fault = "none"
  /\ bt_calls < MaxTreeCalls
  /\ bt_calls' = bt_calls + 1
  /\ LET r == TreeInsert(bt, k, v) IN
       /\ bt' = r[1]
       /\ bt_ins' = IF r[2] THEN [bt_ins EXCEPT ![k] = @ \cup {v}] ELSE bt_ins
       /\ bt_last' = [op |-> "Insert", key |-> k, val |-> v,
                      ret |-> IF r[1].fault # "none" THEN "none"
                              ELSE IF r[2] THEN "true" ELSE "false",
                      before |-> bt]

\* A call of Remove(key)
BTRemove(k) ==
  /\ bt.fault = "none"
  /\ bt_calls < MaxTreeCalls
  /\ bt_calls' = bt_calls + 1
  /\ bt' = TreeRemove(bt, k)
  /\ bt_ins' = [bt_ins EXCEPT ![k] = {}]
  /\ bt_last' = [op |-> "Remove", key |-> k, val |-> 0,
                 ret |-> IF bt'.fault # "none" THEN "none" ELSE "void",
                 before |-> bt]

\* A call of GetValue(key, result) with an empty result vector
BTGetValue(k) ==
  /\ bt.fault = "none"
  /\ bt_calls < MaxTreeCalls
  /\ bt_calls' = bt_calls + 1
  /\ \E w \in WrongPageReads(bt) :
       LET r == GetValue(bt, k, w) IN
         /\ bt' = IF r[2] = "hang" THEN BTFail(r[1], "hang") ELSE r[1]
         /\ bt_last' = [op |-> "GetValue", key |-> k, val |-> r[3],
                        ret |-> r[2], before |-> bt]
  /\ UNCHANGED bt_ins

\* ---- index iterator -------------------------------------------------------

\* The null leaf pointer of an iterator; a leaf is denoted by its page id.
NullLeaf == 0

\* BPlusTree::Begin(): a default-constructed iterator, which has no leaf.
Begin(t) == [leaf_ |-> NullLeaf, index_ |-> 0]

\* IndexIterator::isEnd
isEnd(t, it) ==
  /\ it.leaf_ # NullLeaf
  /\ it.index_ = Len(t.pages[it.leaf_].keys)
  /\ t.pages[it.leaf_].next = INVALID_PAGE_ID

\* IndexIterator::operator++: <<tree, iterator, outcome>>; the leaf that is
\* left stays pinned.
IterNext(t, it) ==
  IF it.leaf_ = NullLeaf THEN <<t, it, "crash">>
  ELSE IF it.index_ + 1 # Len(t.pages[it.leaf_].keys)
  THEN <<t, [it EXCEPT !.index_ = @ + 1], "ok">>
  ELSE LET next_leaf_id == t.pages[it.leaf_].next IN
         IF ~CanFetch(t, next_leaf_id)
         THEN <<t, [it EXCEPT !.index_ = @ + 1], "bad_alloc">>
         ELSE <<FetchPage(t, next_leaf_id),
                [leaf_ |-> next_leaf_id, index_ |-> 0], "ok">>

\* for (it = Begin(); !it.isEnd(); ++it) yield (*it).first, run for at most n
\* rounds: [tree, keys, ret]; ret is "end" when isEnd() became true, "crash"
\* when a null or out-of-range read happened, "bad_alloc" when operator++
\* threw, "more" when n rounds did not reach the end.
RECURSIVE Traverse(_, _, _, _)
Traverse(t, it, yielded, n) ==
  IF it.leaf_ = NullLeaf THEN [tree |-> t, keys |-> yielded, ret |-> "crash"]
  ELSE IF isEnd(t, it) THEN [tree |-> t, keys |-> yielded, ret |-> "end"]
  ELSE IF n = 0 THEN [tree |-> t, keys |-> yielded, ret |-> "more"]
  ELSE IF it.index_ >= Len(t.pages[it.leaf_].keys)
  THEN [tree |-> t, keys |-> yielded, ret |-> "crash"]
  ELSE LET r == IterNext(t, it) IN
         IF r[3] # "ok"
         THEN [tree |-> r[1],
               keys |-> Append(yielded, t.pages[it.leaf_].keys[it.index_ + 1]),
               ret |-> r[3]]
         ELSE Traverse(r[1], r[2],
                       Append(yielded, t.pages[it.leaf_].keys[it.index_ + 1]), n - 1)

\* A traversal of the whole tree from Begin()
BTIterate ==
  /\ bt.fault = "none"
  /\ bt_calls < MaxTreeCalls
  /\ bt_calls' = bt_calls + 1
  /\ LET r == Traverse(bt, Begin(bt), <<>>, MaxTreeCalls + 1) IN
       /\ bt' = IF r.ret \in {"end", "more"} THEN r.tree ELSE BTFail(r.tree, r.ret)
       /\ bt_last' = [op |-> "Iterate", key |-> 0, val |-> 0, ret |-> r.ret,
                      before |-> bt, keys |-> r.keys]
  /\ UNCHANGED bt_ins

\* IndexIterator(leaf, buff_pool_manager): the iterator takes over the leaf its
\* maker fetched and starts at index 0.
IndexIterator(leaf) == [leaf_ |-> leaf, index_ |-> 0]

\* operator++ applied n times, stopping at the first one that throws.
RECURSIVE IterAdvance(_, _, _)
IterAdvance(t, it, n) ==
  IF n = 0 THEN <<t, it, "ok">>
  ELSE LET r == IterNext(t, it) IN
         IF r[3] # "ok" THEN r ELSE IterAdvance(r[1], r[2], n - 1)

\* An iterator is made on the fetched leaf p and moved to its entry i; then
\* operator++ is applied once more. bt_last.before is the tree and bt_last.from
\* the iterator before that last operator++, bt_last.it the iterator after it.
BTAdvance(p, i) ==
  /\ bt.fault = "none"
  /\ bt_calls < MaxTreeCalls
  /\ bt.pages[p].type = "leaf"
  /\ i < Len(bt.pages[p].keys)
  /\ CanFetch(bt, p)
  /\ bt_calls' = bt_calls + 1
  /\ LET a == IterAdvance(FetchPage(bt, p), IndexIterator(p), i)
         r == IterNext(a[1], a[2])
     IN /\ bt' = IF r[3] = "ok" THEN r[1] ELSE BTFail(r[1], r[3])
        /\ bt_last' = [op |-> "Advance", key |-> 0, val |-> 0, ret |-> r[3],
                       before |-> a[1], from |-> a[2], it |-> r[2]]
  /\ UNCHANGED bt_ins

(***************************************************************************)
(* B+ tree: properties                                                     *)
(***************************************************************************)

\* The pages and the root of a tree, without the pin counts.
Structure(t) ==
  [root |-> t.root_page_id_,
   pages |-> [p \in DOMAIN t.pages |-> [t.pages[p] EXCEPT !.pin = 0]]]

\* Key k is stored in a leaf of tree t.
Stored(t, k) ==
  \E p \in DOMAIN t.pages :
    /\ t.pages[p].type = "leaf"
    /\ \E j \in 1..Len(t.pages[p].keys) : t.pages[p].keys[j] = k

\* C4: after Insert(k, v) returned true, GetValue(k) returns true and appends
\* exactly v; GetValue of a key never inserted returns false.
C4_GetValueAfterInsert ==
  bt_last.op = "GetValue" =>
    IF bt_ins[bt_last.key] = {}
    THEN bt_last.ret = "false"
    ELSE bt_last.ret = "true" /\ bt_last.val \in bt_ins[bt_last.key]

\* C5: Insert of a key already stored in the tree returns false and leaves the
\* entries and the page structure of the tree unchanged, whether or not the
\* target leaf is full.
C5_DuplicateRejected ==
  (bt_last.op = "Insert" /\ Stored(bt_last.before, bt_last.key))
  => (bt_last.ret = "false" /\ Structure(bt) = Structure(bt_last.before))

\* C20: when Insert returns (true or false), every page it fetched or created
\* has been unpinned again: the pin count of every page equals its value
\* before the call, and a page created by the call has pin count 0.
C20_InsertPins ==
  (bt_last.op = "Insert" /\ bt_last.ret \in {"true", "false"})
  => \A p \in DOMAIN bt.pages :
       bt.pages[p].pin = IF p \in DOMAIN bt_last.before.pages
                         THEN bt_last.before.pages[p].pin ELSE 0

\* The keys of S in increasing order.
RECURSIVE SortedSeq(_)
SortedSeq(S) ==
  IF S = {} THEN <<>>
  ELSE LET x == CHOOSE y \in S : \A z \in S : y <= z
       IN <<x>> \o SortedSeq(S \ {x})

\* C18: iterating from Begin() with operator++ until isEnd() ends and yields
\* the keys stored in the tree (inserted with result true and not removed
\* since), each once, in strictly increasing order.
C18_OrderedTraversal ==
  bt_last.op = "Iterate" =>
    /\ bt_last.ret = "end"
    /\ bt_last.keys = SortedSeq({k \in TreeKeys : bt_ins[k] # {}})

\* The pages reached from the pages in S through at most n child links.
RECURSIVE Reach(_, _, _)
Reach(t, S, n) ==
  IF n = 0 THEN S
  ELSE Reach(t, S \cup {c \in DOMAIN t.pages :
                          \E p \in S : /\ t.pages[p].type = "internal"
                                       /\ c \in Range(t.pages[p].vals)},
             n - 1)

\* The pages of the tree: those reached from the root.
TreePages(t) ==
  IF t.root_page_id_ \in DOMAIN t.pages
  THEN Reach(t, {t.root_page_id_}, Len(t.pages)) ELSE {}

\* C19: after every Insert or Remove that returns, every page of the tree
\* other than the root holds at least min_size = ceil(max_size / 2) and at
\* most max_size entries.
C19_Occupancy ==
  (bt_last.op \in {"Insert", "Remove"} /\ bt.fault = "none")
  => \A p \in TreePages(bt) \ {bt.root_page_id_} :
       /\ Len(bt.pages[p].keys) >= GetMinSize(bt.pages[p])
       /\ Len(bt.pages[p].keys) <= GetMaxSize(bt.pages[p])

\* C21: when Remove returns, every page it fetched has been unpinned exactly
\* once per fetch: the pin count of every page equals its value before the
\* call, and a page the call deleted was unpinned before.
C21_RemovePins ==
  (bt_last.op = "Remove" /\ bt_last.ret = "void")
  => \A p \in DOMAIN bt.pages : bt.pages[p].pin = bt_last.before.pages[p].pin

\* C22: GetValue is read-only on the buffer pool: whether the key is found or
\* not, when GetValue returns every page's pin count equals its value before
\* the call (GetValue only ever unpins with dirty = false).
C22_GetValueReadOnly ==
  (bt_last.op = "GetValue" /\ bt_last.ret \in {"true", "false"})
  => \A p \in DOMAIN bt.pages : bt.pages[p].pin = bt_last.before.pages[p].pin

\* C23: an Insert that fails because NewPage or FetchPage found no free or
\* evictable frame leaves the tree exactly as before the call: no page has been
\* split or modified, no page was added, root_page_id_ is unchanged and no pin
\* is left held.
C23_AtomicInsert ==
  (bt_last.op = "Insert" /\ bt.fault = "bad_alloc")
  => [bt EXCEPT !.fault = "none"] = bt_last.before

\* C24: operator++ on an iterator at the last entry of its leaf: when the
\* leaf's next_page_id is valid and that page can be fetched, the next leaf is
\* fetched, the previous leaf is unpinned and the iterator is at index 0 of the
\* next leaf; when next_page_id is INVALID_PAGE_ID, isEnd() becomes true, no
\* page is fetched and nothing fails. Either way the iterator holds one pin.
C24_IteratorAdvance ==
  (/\ bt_last.op = "Advance"
   /\ bt_last.from.index_ + 1 = Len(bt_last.before.pages[bt_last.from.leaf_].keys))
  => LET old == bt_last.from.leaf_
         next == bt_last.before.pages[old].next
         others == DOMAIN bt.pages \ {old, next}
     IN /\ \A q \in others : bt.pages[q].pin = bt_last.before.pages[q].pin
        /\ IF next = INVALID_PAGE_ID
           THEN /\ bt_last.ret = "ok"
                /\ isEnd(bt, bt_last.it)
                /\ bt.pages[old].pin = bt_last.before.pages[old].pin
           ELSE CanFetch(bt_last.before, next)
                => /\ bt_last.ret = "ok"
                   /\ bt_last.it = [leaf_ |-> next, index_ |-> 0]
                   /\ bt.pages[next].pin = bt_last.before.pages[next].pin + 1
                   /\ bt.pages[old].pin = bt_last.before.pages[old].pin - 1

\* The leaf Remove(k) descends to in tree t, and the pair of pages a merge of
\* that leaf works on: the leaf after the removal of k, its parent, the
\* 0-based index of the leaf in the parent and the sibling the code picks.
MergePair(t, k) ==
  LET root == t.root_page_id_
      leaf == RemoveDescend(FetchPage(t, root), root, k)[2]
      pg == RemoveAndDeleteRecord(t.pages[leaf], k)
      parent == pg.parent
      value_index == ValueIndex(t.pages[parent], leaf) - 1
      sibling == t.pages[parent].vals[IF value_index = 0 THEN 2 ELSE value_index]
  IN [node |-> leaf, keys |-> pg.keys, parent |-> parent, sibling |-> sibling,
      left |-> IF value_index = 0 THEN leaf ELSE sibling,
      right |-> IF value_index = 0 THEN sibling ELSE leaf]

\* Remove(k) on tree t leaves a non-root leaf below min_size whose entries fit
\* into one page together with those of its sibling.
MergeCase(t, k) ==
  /\ ~IsEmpty(t)
  /\ CanFetch(t, t.root_page_id_)
  /\ LET root == t.root_page_id_
         d == RemoveDescend(FetchPage(t, root), root, k)
         leaf == d[2]
         pg == RemoveAndDeleteRecord(t.pages[leaf], k)
     IN /\ d[1].fault = "none"
        /\ ~IsRootPage(pg)
        /\ Len(pg.keys) < GetMinSize(pg)
        /\ pg.parent \in DOMAIN t.pages
        /\ t.pages[pg.parent].type = "internal"
        /\ ValueIndex(t.pages[pg.parent], leaf) > 0
        /\ Len(t.pages[pg.parent].vals) >= 2
        /\ LET sibling == MergePair(t, k).sibling
           IN /\ sibling \in DOMAIN t.pages
              /\ t.pages[sibling].type = "leaf"
              /\ Len(t.pages[sibling].keys) + Len(pg.keys) <= GetMaxSize(pg)

\* C37: when Remove leaves a non-root leaf below min_size and the leaf and
\* its sibling fit into one page, the entries of the right page of the pair
\* are moved into the left page and the right page is deleted; after Remove
\* returns the surviving left page is still a page of the tree and no internal
\* page of the tree holds a child pointer to a deleted page.
C37_Merge ==
  (/\ bt_last.op = "Remove"
   /\ bt_last.ret = "void"
   /\ MergeCase(bt_last.before, bt_last.key))
  => LET m == MergePair(bt_last.before, bt_last.key)
         merged == IF m.left = m.node
                   THEN m.keys \o bt_last.before.pages[m.right].keys
                   ELSE bt_last.before.pages[m.left].keys \o m.keys
     IN /\ bt.pages[m.left].keys = merged
        /\ bt.pages[m.right].type = "free"
        /\ m.left \in TreePages(bt)
        /\ \A p \in TreePages(bt) :
             bt.pages[p].type = "internal" =>
               \A c \in Range(bt.pages[p].vals) :
                 c \in DOMAIN bt.pages /\ bt.pages[c].type # "free"

\* C38: when a Remove leaves the root an internal page with a single child,
\* root_page_id_ and the header-page record become that child's page id, the
\* child is a root page (parent_page_id is INVALID_PAGE_ID) and the old root
\* is deleted; when the root is a leaf that became empty, root_page_id_
\* becomes INVALID_PAGE_ID and the leaf is deleted; in every other case the
\* root is unchanged.
C38_AdjustRoot ==
  (bt_last.op = "Remove" /\ bt_last.ret = "void" /\ ~IsEmpty(bt_last.before))
  => LET old == bt_last.before.root_page_id_
         pg == bt.pages[old]
     IN IF bt.root_page_id_ = old
        THEN /\ pg.type = "leaf" => pg.keys # <<>>
             /\ pg.type = "internal" => Len(pg.vals) # 1
             /\ pg.type # "free"
        ELSE /\ bt.header = bt.root_page_id_
             /\ pg.type = "free"
             /\ \/ /\ bt_last.before.pages[old].type = "leaf"
                   /\ IsEmpty(bt)
                \/ /\ bt_last.before.pages[old].type = "internal"
                   /\ bt.root_page_id_ \in DOMAIN bt.pages
                   /\ bt.pages[bt.root_page_id_].type # "free"
                   /\ IsRootPage(bt.pages[bt.root_page_id_])

(***************************************************************************)
(* Specifications                                                          *)
(***************************************************************************)

vars == <<lmVars, ehVars, lruVars, btVars>>

\* The lock manager.
Init == LMInit /\ EHConstructed(1) /\ LRUInit /\ BTInit

Next ==
  \/ \E t \in Txns, r \in Rids : LockShared(t, r) /\ UNCHANGED <<ehVars, lruVars, btVars>>
  \/ \E t \in Txns, r \in Rids : LockExclusive(t, r) /\ UNCHANGED <<ehVars, lruVars, btVars>>
  \/ \E t \in Txns, r \in Rids : LockUpgrade(t, r) /\ UNCHANGED <<ehVars, lruVars, btVars>>
  \/ \E t \in Txns, r \in Rids : Unlock(t, r) /\ UNCHANGED <<ehVars, lruVars, btVars>>
  \/ \E t \in Txns : Wake(t) /\ UNCHANGED <<ehVars, lruVars, btVars>>
  \/ \E t \in Txns : SpuriousWake(t) /\ UNCHANGED <<ehVars, lruVars, btVars>>
  \/ \E t \in Txns, s \in {"COMMITTED", "ABORTED"} :
       TxnEnd(t, s) /\ UNCHANGED <<ehVars, lruVars, btVars>>

Spec == Init /\ [][Next]_vars

\* The extendible hash table.
InitHash == LMConstructed(FALSE) /\ EHInit /\ LRUInit /\ BTInit

NextHash ==
  \/ \E k \in EHKeys, v \in EHValues : Insert(k, v) /\ UNCHANGED <<lmVars, lruVars, btVars>>
  \/ \E k \in EHKeys : Remove(k) /\ UNCHANGED <<lmVars, lruVars, btVars>>

SpecHash == InitHash /\ [][NextHash]_vars

\* The extendible hash table used by several threads at once.
InitHashConc == LMConstructed(FALSE) /\ EHInit /\ LRUInit /\ BTInit

NextHashConc ==
  \/ \E t \in HashThreads, k \in ConcKeys, v \in EHValues :
       CInsertBegin(t, k, v) /\ UNCHANGED <<lmVars, lruVars, btVars>>
  \/ \E t \in HashThreads : CInsertTest(t) /\ UNCHANGED <<lmVars, lruVars, btVars>>
  \/ \E t \in HashThreads : CInsertSplit(t) /\ UNCHANGED <<lmVars, lruVars, btVars>>
  \/ \E t \in HashThreads :
       CInsertDirectory(t) /\ UNCHANGED <<lmVars, lruVars, btVars>>

SpecHashConc == InitHashConc /\ [][NextHashConc]_vars

\* The LRU replacer.
InitLRU == LMConstructed(FALSE) /\ EHConstructed(1) /\ LRUInit /\ BTInit

NextLRU ==
  \/ \E v \in LruValues : LRUInsert(v) /\ UNCHANGED <<lmVars, ehVars, btVars>>
  \/ LRUVictim /\ UNCHANGED <<lmVars, ehVars, btVars>>
  \/ \E v \in LruValues : LRUErase(v) /\ UNCHANGED <<lmVars, ehVars, btVars>>

SpecLRU == InitLRU /\ [][NextLRU]_vars

\* The B+ tree.
InitTree == LMConstructed(FALSE) /\ EHConstructed(1) /\ LRUInit /\ BTInit

NextTree ==
  \/ \E k \in TreeKeys, v \in TreeValues :
       BTInsert(k, v) /\ UNCHANGED <<lmVars, ehVars, lruVars>>
  \/ \E k \in TreeKeys : BTGetValue(k) /\ UNCHANGED <<lmVars, ehVars, lruVars>>
  \/ \E k \in TreeKeys : BTRemove(k) /\ UNCHANGED <<lmVars, ehVars, lruVars>>
  \/ BTIterate /\ UNCHANGED <<lmVars, ehVars, lruVars>>
  \/ \E p \in DOMAIN bt.pages, i \in 0 .. (LeafMaxSize - 1) :
       BTAdvance(p, i) /\ UNCHANGED <<lmVars, ehVars, lruVars>>

SpecTree == InitTree /\ [][NextTree]_vars


(***************************************************************************)
(* Properties of steps                                                     *)
(***************************************************************************)

\* C13: under non-strict 2PL a step of the lock manager changes a transaction's
\* state only from GROWING to SHRINKING (a GROWING caller's Unlock returning
\* true) or from GROWING to ABORTED (wait-die in LockShared / LockExclusive); a
\* granted LockShared / LockExclusive leaves the caller GROWING; Unlock by a
\* caller that is not GROWING returns true and leaves its state unchanged.
\* The steps are those after which the program runs on: an Unlock of a rid that
\* is no key of lock_table_ ends the program at its assert (see C26).
C13_StateMachine ==
  [][ ( /\ ~strict_2PL_
        /\ lm_last'.op # "TxnEnd"
        /\ ~(lm_last'.op = "Unlock" /\ lm_last'.ret = "assert") ) =>
        /\ \A t \in Txns :
             txn_state'[t] # txn_state[t] =>
               /\ txn_state[t] = "GROWING"
               /\ lm_last'.txn = t
               /\ \/ /\ txn_state'[t] = "SHRINKING"
                     /\ lm_last'.op = "Unlock"
                     /\ lm_last'.ret = "true"
                  \/ /\ txn_state'[t] = "ABORTED"
                     /\ lm_last'.op \in {"LockShared", "LockExclusive"}
                     /\ lm_last'.ret = "false"
        /\ ( /\ lm_last'.op \in {"LockShared", "WakeShared",
                                 "LockExclusive", "WakeExclusive"}
             /\ lm_last'.ret = "true" )
           => txn_state'[lm_last'.txn] = "GROWING"
        /\ (lm_last'.op = "Unlock" /\ lm_last'.prestate # "GROWING")
           => ( lm_last'.ret = "true"
                /\ txn_state'[lm_last'.txn] = lm_last'.prestate )
    ]_vars


\* C14: a LockShared / LockExclusive / LockUpgrade call by a transaction that
\* is not GROWING (in particular SHRINKING after its first Unlock) is not
\* granted: it does not return true, does not block, and leaves every queue and
\* every transaction's shared and exclusive lock set as they were.
C14_TwoPhase ==
  [][ ( /\ lm_last'.op \in {"LockShared", "LockExclusive", "LockUpgrade",
                            "WakeShared", "WakeExclusive", "WakeUpgrade"}
        /\ txn_state[lm_last'.txn] # "GROWING" )
      => /\ lm_last'.ret \in {"false", "assert"}
         /\ lock_table_' = lock_table_
         /\ shared_lock_set' = shared_lock_set
         /\ exclusive_lock_set' = exclusive_lock_set
         /\ pc' = pc
    ]_vars

\* A SHRINKING transaction has called LockShared or LockExclusive under
\* non-strict 2PL and the call stopped at the assert.
C14_Witness ==
  /\ ~strict_2PL_
  /\ lm_last.op \in {"LockShared", "LockExclusive"}
  /\ lm_last.prestate = "SHRINKING"
  /\ lm_last.ret = "assert"
  /\ lm_halt


\* C15: Remove(k) returns true iff k was stored (inserted and not removed
\* since) immediately before the call; after it Find(k) returns false, and the
\* Find result of every other key is what it was before the call.
C15_Remove ==
  [][ \A k \in EHKeys :
        (eh_last'.op = "Remove" /\ eh_last'.key = k /\ eh_calls' = eh_calls + 1)
        => /\ eh_last'.ret = (eh_map[k] # 0)
           /\ ~(Find(k)[1])'
           /\ \A j \in EHKeys \ {k} : Find(j)' = Find(j)
    ]_vars


\* C16: concurrent Insert calls are serialized; three threads that each insert
\* one of the distinct keys 0, 1, 2 into an empty table of bucket size 2 run
\* into no undefined operation and end with all three keys found with their
\* values and global depth 1.
C16_ConcurrentInsert ==
  ( /\ bucket_size_ = 2
    /\ NumHashThreads >= 3
    /\ \A t \in 1..3 : eh_thread[t].pc # "idle" /\ eh_thread[t].key = t - 1
    /\ \A t \in HashThreads \ (1..3) : eh_thread[t].pc = "idle" )
  => /\ ~eh_fault
     /\ (\A t \in 1..3 : eh_thread[t].pc = "done")
        => ( depth = 1 /\ \A k \in 0..2 : Find(k) = <<TRUE, eh_map[k]>> )


\* C26: Unlock(t, r) when r's queue holds no request of t is stopped as a
\* precondition violation instead of returning, and it changes neither a
\* transaction's state nor a queue.
C26_CheckedUnlock ==
  [][ ( /\ lm_last'.op = "Unlock"
        /\ FirstIdx(lock_table_[lm_last'.rid].list, lm_last'.txn) = 0 )
      => /\ lm_last'.ret = "assert"
         /\ txn_state' = txn_state
         /\ lock_table_' = lock_table_
    ]_vars

=============================================================================
